---- MODULE Spec2Model ----
(***************************************************************************)
(* makeprojects: the enumerations (enums.py), the SourceFile and           *)
(* new_configuration helpers (__init__.py) and the file-list resolution    *)
(* of SolutionData (core.py).                                              *)
(*                                                                         *)
(* Python strings are sequences of one-character strings, so that lower(), *)
(* rfind(), startswith() and slicing are computed character by character.  *)
(* An enumeration member is written as its identifier ("win32"); its       *)
(* integer value is its position in the enumeration, counted from 0.       *)
(***************************************************************************)
EXTENDS Integers, Sequences, FiniteSets, TLC

VARIABLES
  op,                  \* the operation that was called last
  args,                \* the arguments it was called with
  result,              \* what it returned (or the exception it raised)
  pc,                  \* where the SolutionData object is in its life
  self_workingDir,     \* SolutionData.workingDir: the files under it
  os_sep,              \* os.sep of the host
  self_sourcefolders,  \* SolutionData.sourcefolders
  self_exclude,        \* SolutionData.exclude
  self_codefiles,      \* SolutionData.codefiles
  os_listdir,          \* the order in which the host listed each directory
  asked_types,         \* the file types the last getfilelist was asked for
  filelist,            \* what the last getfilelist returned
  run_pc,              \* where the command line shell is in run()
  run_input,           \* what the shell finds as its description file
  item_index,          \* the item the loop of process() is at
  run_solution,        \* the SolutionData of the run
  error,               \* the variable error of process()
  exit_code,           \* what run() returned
  processed,           \* the items the loop of process() has handled
  runs,                \* the runs of the shell so far
  disk,                \* the project files in the working directory
  writes,              \* the files written since the run began
  os_environ,          \* os.environ: CWFolder
  disk_before,         \* the project files when the run began
  emit_solution,       \* the Solution handed to generate(solution)
  emit_before,         \* the Solution as it was when generate() was called
  emit_result,         \* what generate() returned
  emitter,             \* the module whose generate() was called last
  emits,               \* the calls of generate() made so far
  emit_disk,           \* the files of the Solution's working directory
  emit_writes,         \* the files written during the last generate()
  emit_environ,        \* os.environ of the process that calls generate()
  cw_pc,               \* where the CodeWarrior exporter is with its groups
  cw_group,            \* Project.group and the GROUPs below it, by path
  cw_added,            \* the parts addtogroups was called with, in order
  cw_lines,            \* what GROUP.generate wrote for Project.group
  build_pc,            \* where buildme's main() is
  build_args,          \* the command line of buildme and the host it runs on
  build_projects,      \* the list "projects" of main()
  build_index,         \* the project the loop of main() is at
  build_results,       \* the list "results" of main()
  build_calls,         \* the build commands run so far, in order
  build_error,         \* the variable error of main()
  build_return         \* what main() returned

callvars == <<op, args, result>>
filevars == <<pc, self_workingDir, os_sep, self_sourcefolders, self_exclude,
              self_codefiles, os_listdir, asked_types, filelist>>
genvars == <<run_pc, run_input, item_index, run_solution, error, exit_code,
             processed, runs, disk, writes, os_environ, disk_before>>
emitvars == <<emit_solution, emit_before, emit_result, emitter, emits, emit_disk,
              emit_writes, emit_environ>>
groupvars == <<cw_pc, cw_group, cw_added, cw_lines>>
buildvars == <<build_pc, build_args, build_projects, build_index, build_results,
               build_calls, build_error, build_return>>
vars == <<op, args, result, pc, self_workingDir, os_sep, self_sourcefolders,
          self_exclude, self_codefiles, os_listdir, asked_types, filelist,
          run_pc, run_input, item_index, run_solution, error, exit_code,
          processed, runs, disk, writes, os_environ, disk_before,
          emit_solution, emit_before, emit_result, emitter, emits, emit_disk,
          emit_writes, emit_environ, cw_pc, cw_group, cw_added, cw_lines,
          build_pc, build_args, build_projects, build_index, build_results,
          build_calls, build_error, build_return>>

\* Python's None, and the exceptions the modelled code can raise.
None == "None"
KeyError == "KeyError"
TypeError == "TypeError"

----------------------------------------------------------------------------
(* Strings *)

Uppercase ==
  <<"A","B","C","D","E","F","G","H","I","J","K","L","M",
    "N","O","P","Q","R","S","T","U","V","W","X","Y","Z">>

Lowercase ==
  <<"a","b","c","d","e","f","g","h","i","j","k","l","m",
    "n","o","p","q","r","s","t","u","v","w","x","y","z">>

\* Position of character c in the alphabet abc, 0 when absent.
AlphaIndex(abc, c) ==
  IF \E i \in 1..Len(abc) : abc[i] = c
  THEN CHOOSE i \in 1..Len(abc) : abc[i] = c
  ELSE 0

\* str.lower(): every cased character is replaced by its lowercase form.
str_lower(s) ==
  [i \in 1..Len(s) |->
     IF AlphaIndex(Uppercase, s[i]) # 0
     THEN Lowercase[AlphaIndex(Uppercase, s[i])]
     ELSE s[i]]

\* str.upper(): every cased character is replaced by its uppercase form.
str_upper(s) ==
  [i \in 1..Len(s) |->
     IF AlphaIndex(Lowercase, s[i]) # 0
     THEN Uppercase[AlphaIndex(Lowercase, s[i])]
     ELSE s[i]]

\* s in (t1, t2, ...): membership of a string in a tuple of strings.
InTuple(s, tuple) == \E i \in 1..Len(tuple) : tuple[i] = s

----------------------------------------------------------------------------
(* Dictionaries keyed by enumeration members, in declaration order.  Each  *)
(* entry is <<member, value>>.                                             *)

Members(table) == {table[i][1] : i \in 1..Len(table)}

Has(table, m) == \E i \in 1..Len(table) : table[i][1] = m

Get(table, m) == table[CHOOSE i \in 1..Len(table) : table[i][1] = m][2]

\* The integer AutoEnum assigns to member m: 0 for the first member
\* declared, then 1, 2, ...
Value(enum, m) == (CHOOSE i \in 1..Len(enum) : enum[i][1] = m) - 1

\* Truth value of a member: an IntEnum member is an int, so the member
\* whose value is 0 is false.
Truthy(enum, m) == Value(enum, m) # 0

----------------------------------------------------------------------------
(* The enumerations and their tables (enums.py) *)

ProjectTypes ==
  <<
    <<"library", <<"l","i","b","r","a","r","y">>>>,
    <<"tool", <<"t","o","o","l">>>>,
    <<"app", <<"a","p","p">>>>,
    <<"screensaver", <<"s","c","r","e","e","n","s","a","v","e","r">>>>,
    <<"sharedlibrary", <<"s","h","a","r","e","d","l","i","b","r","a","r","y">>>>,
    <<"empty", <<"e","m","p","t","y">>>>
  >>

PROJECTTYPES_READABLE ==
  <<
    <<"library", <<"L","i","b","r","a","r","y">>>>,  \* Library
    <<"tool", <<"T","o","o","l">>>>,  \* Tool
    <<"app", <<"A","p","p","l","i","c","a","t","i","o","n">>>>,  \* Application
    <<"screensaver", <<"S","c","r","e","e","n","S","a","v","e","r">>>>,  \* ScreenSaver
    <<"sharedlibrary", <<"D","y","n","a","m","i","c"," ","L","i","b","r","a","r","y">>>>,  \* Dynamic Library
    <<"empty", <<"E","m","p","t","y">>>>  \* Empty
  >>

IDETypes ==
  <<
    <<"vs2003", <<"v","s","2","0","0","3">>>>,
    <<"vs2005", <<"v","s","2","0","0","5">>>>,
    <<"vs2008", <<"v","s","2","0","0","8">>>>,
    <<"vs2010", <<"v","s","2","0","1","0">>>>,
    <<"vs2012", <<"v","s","2","0","1","2">>>>,
    <<"vs2013", <<"v","s","2","0","1","3">>>>,
    <<"vs2015", <<"v","s","2","0","1","5">>>>,
    <<"vs2017", <<"v","s","2","0","1","7">>>>,
    <<"vs2019", <<"v","s","2","0","1","9">>>>,
    <<"watcom", <<"w","a","t","c","o","m">>>>,
    <<"codewarrior50", <<"c","o","d","e","w","a","r","r","i","o","r","5","0">>>>,
    <<"codewarrior58", <<"c","o","d","e","w","a","r","r","i","o","r","5","8">>>>,
    <<"codewarrior59", <<"c","o","d","e","w","a","r","r","i","o","r","5","9">>>>,
    <<"xcode3", <<"x","c","o","d","e","3">>>>,
    <<"xcode4", <<"x","c","o","d","e","4">>>>,
    <<"xcode5", <<"x","c","o","d","e","5">>>>,
    <<"xcode6", <<"x","c","o","d","e","6">>>>,
    <<"xcode7", <<"x","c","o","d","e","7">>>>,
    <<"xcode8", <<"x","c","o","d","e","8">>>>,
    <<"xcode9", <<"x","c","o","d","e","9">>>>,
    <<"xcode10", <<"x","c","o","d","e","1","0">>>>,
    <<"codeblocks", <<"c","o","d","e","b","l","o","c","k","s">>>>,
    <<"nmake", <<"n","m","a","k","e">>>>,
    <<"make", <<"m","a","k","e">>>>,
    <<"bazel", <<"b","a","z","e","l">>>>
  >>

IDETYPES_CODES ==
  <<
    <<"vs2003", <<"v","c","7">>>>,  \* vc7
    <<"vs2005", <<"v","c","8">>>>,  \* vc8
    <<"vs2008", <<"v","c","9">>>>,  \* vc9
    <<"vs2010", <<"v","1","0">>>>,  \* v10
    <<"vs2012", <<"v","1","2">>>>,  \* v12
    <<"vs2013", <<"v","1","3">>>>,  \* v13
    <<"vs2015", <<"v","1","5">>>>,  \* v15
    <<"vs2017", <<"v","1","7">>>>,  \* v17
    <<"vs2019", <<"v","1","9">>>>,  \* v19
    <<"watcom", <<"w","a","t">>>>,  \* wat
    <<"codewarrior50", <<"c","5","0">>>>,  \* c50
    <<"codewarrior58", <<"c","5","8">>>>,  \* c58
    <<"codewarrior59", <<"c","5","9">>>>,  \* c59
    <<"xcode3", <<"x","c","3">>>>,  \* xc3
    <<"xcode4", <<"x","c","4">>>>,  \* xc4
    <<"xcode5", <<"x","c","5">>>>,  \* xc5
    <<"xcode6", <<"x","c","6">>>>,  \* xc6
    <<"xcode7", <<"x","c","7">>>>,  \* xc7
    <<"xcode8", <<"x","c","8">>>>,  \* xc8
    <<"xcode9", <<"x","c","9">>>>,  \* xc9
    <<"xcode10", <<"x","1","0">>>>,  \* x10
    <<"codeblocks", <<"c","d","b">>>>,  \* cdb
    <<"nmake", <<"n","m","k">>>>,  \* nmk
    <<"make", <<"m","a","k">>>>,  \* mak
    <<"bazel", <<"b","z","l">>>>  \* bzl
  >>

IDETYPES_READABLE ==
  <<
    <<"vs2003", <<"V","i","s","u","a","l"," ","S","t","u","d","i","o"," ","2","0","0","3">>>>,  \* Visual Studio 2003
    <<"vs2005", <<"V","i","s","u","a","l"," ","S","t","u","d","i","o"," ","2","0","0","5">>>>,  \* Visual Studio 2005
    <<"vs2008", <<"V","i","s","u","a","l"," ","S","t","u","d","i","o"," ","2","0","0","8">>>>,  \* Visual Studio 2008
    <<"vs2010", <<"V","i","s","u","a","l"," ","S","t","u","d","i","o"," ","2","0","1","0">>>>,  \* Visual Studio 2010
    <<"vs2012", <<"V","i","s","u","a","l"," ","S","t","u","d","i","o"," ","2","0","1","2">>>>,  \* Visual Studio 2012
    <<"vs2013", <<"V","i","s","u","a","l"," ","S","t","u","d","i","o"," ","2","0","1","3">>>>,  \* Visual Studio 2013
    <<"vs2015", <<"V","i","s","u","a","l"," ","S","t","u","d","i","o"," ","2","0","1","5">>>>,  \* Visual Studio 2015
    <<"vs2017", <<"V","i","s","u","a","l"," ","S","t","u","d","i","o"," ","2","0","1","7">>>>,  \* Visual Studio 2017
    <<"vs2019", <<"V","i","s","u","a","l"," ","S","t","u","d","i","o"," ","2","0","1","9">>>>,  \* Visual Studio 2019
    <<"watcom", <<"O","p","e","n"," ","W","a","t","c","o","m"," ","1",".","9"," ","w","m","a","k","e">>>>,  \* Open Watcom 1.9 wmake
    <<"codewarrior50", <<"C","o","d","e","W","a","r","r","i","o","r"," ","9">>>>,  \* CodeWarrior 9
    <<"codewarrior58", <<"C","o","d","e","W","a","r","r","i","o","r"," ","1","0">>>>,  \* CodeWarrior 10
    <<"codewarrior59", <<"F","r","e","e","s","c","a","l","e"," ","C","o","d","e","W","a","r","r","i","o","r"," ","5",".","9">>>>,  \* Freescale CodeWarrior 5.9
    <<"xcode3", <<"X","C","o","d","e"," ","3",".","1",".","4">>>>,  \* XCode 3.1.4
    <<"xcode4", <<"X","C","o","d","e"," ","4">>>>,  \* XCode 4
    <<"xcode5", <<"X","C","o","d","e"," ","5">>>>,  \* XCode 5
    <<"xcode6", <<"X","C","o","d","e"," ","6">>>>,  \* XCode 6
    <<"xcode7", <<"X","C","o","d","e"," ","7">>>>,  \* XCode 7
    <<"xcode8", <<"X","C","o","d","e"," ","8">>>>,  \* XCode 8
    <<"xcode9", <<"X","C","o","d","e"," ","9">>>>,  \* XCode 9
    <<"xcode10", <<"X","C","o","d","e"," ","1","0">>>>,  \* XCode 10
    <<"codeblocks", <<"C","o","d","e","B","l","o","c","k","s"," ","1","3",".","1","2">>>>,  \* CodeBlocks 13.12
    <<"nmake", <<"G","N","U"," ","m","a","k","e">>>>,  \* GNU make
    <<"make", <<"L","i","n","u","x"," ","m","a","k","e">>>>,  \* Linux make
    <<"bazel", <<"B","a","z","e","l"," ","b","u","i","l","d">>>>  \* Bazel build
  >>

PlatformTypes ==
  <<
    <<"windows", <<"w","i","n","d","o","w","s">>>>,
    <<"win32", <<"w","i","n","3","2">>>>,
    <<"win64", <<"w","i","n","6","4">>>>,
    <<"macosx", <<"m","a","c","o","s","x">>>>,
    <<"macosxppc32", <<"m","a","c","o","s","x","p","p","c","3","2">>>>,
    <<"macosxppc64", <<"m","a","c","o","s","x","p","p","c","6","4">>>>,
    <<"macosxintel32", <<"m","a","c","o","s","x","i","n","t","e","l","3","2">>>>,
    <<"macosxintel64", <<"m","a","c","o","s","x","i","n","t","e","l","6","4">>>>,
    <<"macos9", <<"m","a","c","o","s","9">>>>,
    <<"macos968k", <<"m","a","c","o","s","9","6","8","k">>>>,
    <<"macos9ppc", <<"m","a","c","o","s","9","p","p","c">>>>,
    <<"maccarbon", <<"m","a","c","c","a","r","b","o","n">>>>,
    <<"maccarbon68k", <<"m","a","c","c","a","r","b","o","n","6","8","k">>>>,
    <<"maccarbonppc", <<"m","a","c","c","a","r","b","o","n","p","p","c">>>>,
    <<"ios", <<"i","o","s">>>>,
    <<"ios32", <<"i","o","s","3","2">>>>,
    <<"ios64", <<"i","o","s","6","4">>>>,
    <<"iosemu", <<"i","o","s","e","m","u">>>>,
    <<"iosemu32", <<"i","o","s","e","m","u","3","2">>>>,
    <<"iosemu64", <<"i","o","s","e","m","u","6","4">>>>,
    <<"xbox", <<"x","b","o","x">>>>,
    <<"xbox360", <<"x","b","o","x","3","6","0">>>>,
    <<"xboxone", <<"x","b","o","x","o","n","e">>>>,
    <<"ps3", <<"p","s","3">>>>,
    <<"ps4", <<"p","s","4">>>>,
    <<"vita", <<"v","i","t","a">>>>,
    <<"wiiu", <<"w","i","i","u">>>>,
    <<"switch", <<"s","w","i","t","c","h">>>>,
    <<"dsi", <<"d","s","i">>>>,
    <<"ds", <<"d","s">>>>,
    <<"android", <<"a","n","d","r","o","i","d">>>>,
    <<"shield", <<"s","h","i","e","l","d">>>>,
    <<"amico", <<"a","m","i","c","o">>>>,
    <<"ouya", <<"o","u","y","a">>>>,
    <<"androidarm32", <<"a","n","d","r","o","i","d","a","r","m","3","2">>>>,
    <<"androidarm64", <<"a","n","d","r","o","i","d","a","r","m","6","4">>>>,
    <<"androidintel32", <<"a","n","d","r","o","i","d","i","n","t","e","l","3","2">>>>,
    <<"androidintel64", <<"a","n","d","r","o","i","d","i","n","t","e","l","6","4">>>>,
    <<"linux", <<"l","i","n","u","x">>>>,
    <<"msdos", <<"m","s","d","o","s">>>>,
    <<"msdos4gw", <<"m","s","d","o","s","4","g","w">>>>,
    <<"msdosx32", <<"m","s","d","o","s","x","3","2">>>>,
    <<"beos", <<"b","e","o","s">>>>,
    <<"iigs", <<"i","i","g","s">>>>
  >>

PLATFORMTYPES_CODES ==
  <<
    <<"windows", <<"w","i","n">>>>,  \* win
    <<"win32", <<"w","3","2">>>>,  \* w32
    <<"win64", <<"w","6","4">>>>,  \* w64
    <<"macosx", <<"o","s","x">>>>,  \* osx
    <<"macosxppc32", <<"o","s","x","p","3","2">>>>,  \* osxp32
    <<"macosxppc64", <<"o","s","x","p","6","4">>>>,  \* osxp64
    <<"macosxintel32", <<"o","s","x","x","8","6">>>>,  \* osxx86
    <<"macosxintel64", <<"o","s","x","x","6","4">>>>,  \* osxx64
    <<"macos9", <<"m","a","c">>>>,  \* mac
    <<"macos968k", <<"m","a","c","6","8","k">>>>,  \* mac68k
    <<"macos9ppc", <<"m","a","c","p","p","c">>>>,  \* macppc
    <<"maccarbon", <<"c","a","r">>>>,  \* car
    <<"maccarbon68k", <<"c","a","r","6","8","k">>>>,  \* car68k
    <<"maccarbonppc", <<"c","a","r","p","p","c">>>>,  \* carppc
    <<"ios", <<"i","o","s">>>>,  \* ios
    <<"ios32", <<"i","o","s","a","3","2">>>>,  \* iosa32
    <<"ios64", <<"i","o","s","a","6","4">>>>,  \* iosa64
    <<"iosemu", <<"i","o","e">>>>,  \* ioe
    <<"iosemu32", <<"i","o","e","x","8","6">>>>,  \* ioex86
    <<"iosemu64", <<"i","o","e","x","6","4">>>>,  \* ioex64
    <<"xbox", <<"x","b","x">>>>,  \* xbx
    <<"xbox360", <<"x","3","6">>>>,  \* x36
    <<"xboxone", <<"o","n","e">>>>,  \* one
    <<"ps3", <<"p","s","3">>>>,  \* ps3
    <<"ps4", <<"p","s","4">>>>,  \* ps4
    <<"vita", <<"v","i","t">>>>,  \* vit
    <<"wiiu", <<"w","i","u">>>>,  \* wiu
    <<"switch", <<"s","w","i">>>>,  \* swi
    <<"dsi", <<"d","s","i">>>>,  \* dsi
    <<"ds", <<"2","d","s">>>>,  \* 2ds
    <<"android", <<"a","n","d">>>>,  \* and
    <<"shield", <<"s","h","i">>>>,  \* shi
    <<"amico", <<"a","m","i">>>>,  \* ami
    <<"ouya", <<"o","y","a">>>>,  \* oya
    <<"androidarm32", <<"a","n","d","a","3","2">>>>,  \* anda32
    <<"androidarm64", <<"a","n","d","a","6","4">>>>,  \* anda64
    <<"androidintel32", <<"a","n","d","x","3","2">>>>,  \* andx32
    <<"androidintel64", <<"a","n","d","x","6","4">>>>,  \* andx64
    <<"linux", <<"l","n","x">>>>,  \* lnx
    <<"msdos", <<"d","o","s">>>>,  \* dos
    <<"msdos4gw", <<"d","o","s","4","g","w">>>>,  \* dos4gw
    <<"msdosx32", <<"d","o","s","x","3","2">>>>,  \* dosx32
    <<"beos", <<"b","e","o">>>>,  \* beo
    <<"iigs", <<"2","g","s">>>>  \* 2gs
  >>

PLATFORMTYPES_VS ==
  <<
    <<"windows", <<<<"W","i","n","3","2">>, <<"x","6","4">>>>>>,  \* Win32 / x64
    <<"win32", <<<<"W","i","n","3","2">>>>>>,  \* Win32
    <<"win64", <<<<"x","6","4">>>>>>,  \* x64
    <<"xbox", <<<<"X","b","o","x">>>>>>,  \* Xbox
    <<"xbox360", <<<<"X","b","o","x"," ","3","6","0">>>>>>,  \* Xbox 360
    <<"xboxone", <<<<"X","b","o","x"," ","O","N","E">>>>>>,  \* Xbox ONE
    <<"ps3", <<<<"P","S","3">>>>>>,  \* PS3
    <<"ps4", <<<<"O","R","B","I","S">>>>>>,  \* ORBIS
    <<"vita", <<<<"P","S","V","i","t","a">>>>>>,  \* PSVita
    <<"wiiu", <<<<"C","a","f","e">>>>>>,  \* Cafe
    <<"dsi", <<<<"C","T","R">>>>>>,  \* CTR
    <<"switch", <<<<"S","w","i","t","c","h">>>>>>,  \* Switch
    <<"android", <<<<"A","n","d","r","o","i","d">>>>>>,  \* Android
    <<"shield", <<<<"T","e","g","r","a","-","A","n","d","r","o","i","d">>, <<"A","R","M","-","A","n","d","r","o","i","d","-","N","V","I","D","I","A">>, <<"A","A","r","c","h","6","4","-","A","n","d","r","o","i","d","-","N","V","I","D","I","A">>, <<"x","8","6","-","A","n","d","r","o","i","d","-","N","V","I","D","I","A">>, <<"x","6","4","-","A","n","d","r","o","i","d","-","N","V","I","D","I","A">>>>>>,  \* Tegra-Android / ARM-Android-NVIDIA / AArch64-Android-NVIDIA / x86-Android-NVIDIA / x64-Android-NVIDIA
    <<"androidarm32", <<<<"A","R","M","-","A","n","d","r","o","i","d","-","N","V","I","D","I","A">>>>>>,  \* ARM-Android-NVIDIA
    <<"androidarm64", <<<<"A","A","r","c","h","6","4","-","A","n","d","r","o","i","d","-","N","V","I","D","I","A">>>>>>,  \* AArch64-Android-NVIDIA
    <<"androidintel32", <<<<"x","8","6","-","A","n","d","r","o","i","d","-","N","V","I","D","I","A">>>>>>,  \* x86-Android-NVIDIA
    <<"androidintel64", <<<<"x","6","4","-","A","n","d","r","o","i","d","-","N","V","I","D","I","A">>>>>>  \* x64-Android-NVIDIA
  >>

PLATFORMTYPES_READABLE ==
  <<
    <<"windows", <<"M","i","c","r","o","s","o","f","t"," ","W","i","n","d","o","w","s"," ","x","8","6"," ","a","n","d"," ","x","6","4">>>>,  \* Microsoft Windows x86 and x64
    <<"win32", <<"M","i","c","r","o","s","o","f","t"," ","W","i","n","d","o","w","s"," ","x","8","6">>>>,  \* Microsoft Windows x86
    <<"win64", <<"M","i","c","r","o","s","o","f","t"," ","W","i","n","d","o","w","s"," ","x","6","4">>>>,  \* Microsoft Windows x64
    <<"macosx", <<"A","p","p","l","e"," ","m","a","c","O","S"," ","a","l","l"," ","C","P","U","s">>>>,  \* Apple macOS all CPUs
    <<"macosxppc32", <<"A","p","p","l","e"," ","m","a","c","O","S"," ","P","o","w","e","r","P","C"," ","3","2">>>>,  \* Apple macOS PowerPC 32
    <<"macosxppc64", <<"A","p","p","l","e"," ","m","a","c","O","S"," ","P","o","w","e","r","P","C"," ","6","4">>>>,  \* Apple macOS PowerPC 64
    <<"macosxintel32", <<"A","p","p","l","e"," ","m","a","c","O","S"," ","x","8","6">>>>,  \* Apple macOS x86
    <<"macosxintel64", <<"A","p","p","l","e"," ","m","a","c","O","S"," ","x","6","4">>>>,  \* Apple macOS x64
    <<"macos9", <<"A","p","p","l","e"," ","M","a","c","O","S"," ","9"," ","P","P","C"," ","a","n","d"," ","6","8","k">>>>,  \* Apple MacOS 9 PPC and 68k
    <<"macos968k", <<"A","p","p","l","e"," ","M","a","c","O","S"," ","9"," ","6","8","k">>>>,  \* Apple MacOS 9 68k
    <<"macos9ppc", <<"A","p","p","l","e"," ","M","a","c","O","S"," ","9"," ","P","o","w","e","r","P","C"," ","3","2">>>>,  \* Apple MacOS 9 PowerPC 32
    <<"maccarbon", <<"A","p","p","l","e"," ","M","a","c","O","S"," ","C","a","r","b","o","n">>>>,  \* Apple MacOS Carbon
    <<"maccarbon68k", <<"A","p","p","l","e"," ","M","a","c","O","S"," ","C","a","r","b","o","n"," ","6","8","k">>>>,  \* Apple MacOS Carbon 68k
    <<"maccarbonppc", <<"A","p","p","l","e"," ","M","a","c","O","S"," ","C","a","r","b","o","n"," ","P","o","w","e","r","P","C"," ","3","2">>>>,  \* Apple MacOS Carbon PowerPC 32
    <<"ios", <<"A","p","p","l","e"," ","i","O","S">>>>,  \* Apple iOS
    <<"ios32", <<"A","p","p","l","e"," ","i","O","S"," ","A","R","M"," ","3","2">>>>,  \* Apple iOS ARM 32
    <<"ios64", <<"A","p","p","l","e"," ","i","O","S"," ","A","R","M"," ","6","4">>>>,  \* Apple iOS ARM 64
    <<"iosemu", <<"A","p","p","l","e"," ","i","O","S"," ","E","m","u","l","a","t","o","r">>>>,  \* Apple iOS Emulator
    <<"iosemu32", <<"A","p","p","l","e"," ","i","O","S"," ","E","m","u","l","a","t","o","r"," ","x","8","6">>>>,  \* Apple iOS Emulator x86
    <<"iosemu64", <<"A","p","p","l","e"," ","i","O","S"," ","E","m","u","l","a","t","o","r"," ","x","6","4">>>>,  \* Apple iOS Emulator x64
    <<"xbox", <<"M","i","c","r","o","s","o","f","t"," ","X","b","o","x">>>>,  \* Microsoft Xbox
    <<"xbox360", <<"M","i","c","r","o","s","o","f","t"," ","X","b","o","x"," ","3","6","0">>>>,  \* Microsoft Xbox 360
    <<"xboxone", <<"M","i","c","r","o","s","o","f","t"," ","X","b","o","x"," ","O","N","E">>>>,  \* Microsoft Xbox ONE
    <<"ps3", <<"S","o","n","y"," ","P","S","3">>>>,  \* Sony PS3
    <<"ps4", <<"S","o","n","y"," ","P","S","4">>>>,  \* Sony PS4
    <<"vita", <<"S","o","n","y"," ","P","l","a","y","s","t","a","t","i","o","n"," ","V","i","t","a">>>>,  \* Sony Playstation Vita
    <<"wiiu", <<"N","i","n","t","e","n","d","o"," ","W","i","i","U">>>>,  \* Nintendo WiiU
    <<"switch", <<"N","i","n","t","e","n","d","o"," ","S","w","i","t","c","h">>>>,  \* Nintendo Switch
    <<"dsi", <<"N","i","n","t","e","n","d","o"," ","D","S","I">>>>,  \* Nintendo DSI
    <<"ds", <<"N","i","n","t","e","n","d","o"," ","2","D","S">>>>,  \* Nintendo 2DS
    <<"android", <<"G","o","o","g","l","e"," ","A","n","d","r","o","i","d">>>>,  \* Google Android
    <<"shield", <<"n","V","i","d","i","a"," ","S","h","i","e","l","d">>>>,  \* nVidia Shield
    <<"amico", <<"I","n","t","e","l","l","i","v","i","s","i","o","n"," ","A","m","i","c","o">>>>,  \* Intellivision Amico
    <<"ouya", <<"O","u","y","a">>>>,  \* Ouya
    <<"androidarm32", <<"A","n","d","r","o","i","d"," ","A","R","M"," ","3","2">>>>,  \* Android ARM 32
    <<"androidarm64", <<"A","n","d","r","o","i","d"," ","A","R","M"," ","6","4">>>>,  \* Android ARM 64
    <<"androidintel32", <<"A","n","d","r","o","i","d"," ","x","8","6">>>>,  \* Android x86
    <<"androidintel64", <<"A","n","d","r","o","i","d"," ","x","6","4">>>>,  \* Android x64
    <<"linux", <<"L","i","n","u","x">>>>,  \* Linux
    <<"msdos", <<"M","S","D","o","s"," ","D","O","S","4","G","W"," ","a","n","d"," ","X","3","2">>>>,  \* MSDos DOS4GW and X32
    <<"msdos4gw", <<"M","S","D","o","s"," ","D","O","S","4","G","W">>>>,  \* MSDos DOS4GW
    <<"msdosx32", <<"M","S","D","o","s"," ","X","3","2">>>>,  \* MSDos X32
    <<"beos", <<"B","e","O","S">>>>,  \* BeOS
    <<"iigs", <<"A","p","p","l","e"," ","I","I","g","s">>>>  \* Apple IIgs
  >>

PLATFORMTYPES_EXPANDED ==
  <<
    <<"windows", <<"win32", "win64">>>>,
    <<"msdos", <<"msdosx32", "msdos4gw">>>>,
    <<"macosx", <<"macosxppc32", "macosxppc64", "macosxintel32", "macosxintel64">>>>,
    <<"macos9", <<"macos968k", "macos9ppc">>>>,
    <<"maccarbon", <<"maccarbon68k", "maccarbonppc">>>>,
    <<"ios", <<"ios32", "ios64">>>>,
    <<"iosemu", <<"iosemu32", "iosemu64">>>>,
    <<"android", <<"androidarm32", "androidarm64", "androidintel32", "androidintel64">>>>
  >>

ProjectTypes_attributes ==
  <<
    <<"l","o","o","k","u","p">>,
    <<"d","e","f","a","u","l","t">>
  >>

IDETypes_attributes ==
  <<
    <<"g","e","t","_","s","h","o","r","t","_","c","o","d","e">>,
    <<"i","s","_","v","i","s","u","a","l","_","s","t","u","d","i","o">>,
    <<"i","s","_","x","c","o","d","e">>,
    <<"i","s","_","c","o","d","e","w","a","r","r","i","o","r">>,
    <<"l","o","o","k","u","p">>,
    <<"d","e","f","a","u","l","t">>
  >>

PlatformTypes_attributes ==
  <<
    <<"g","e","t","_","s","h","o","r","t","_","c","o","d","e">>,
    <<"i","s","_","w","i","n","d","o","w","s">>,
    <<"i","s","_","m","a","c","o","s","x">>,
    <<"i","s","_","i","o","s">>,
    <<"i","s","_","m","a","c","o","s">>,
    <<"i","s","_","m","a","c","o","s","_","c","a","r","b","o","n">>,
    <<"i","s","_","m","a","c","o","s","_","c","l","a","s","s","i","c">>,
    <<"i","s","_","m","s","d","o","s">>,
    <<"i","s","_","a","n","d","r","o","i","d">>,
    <<"m","a","t","c","h">>,
    <<"g","e","t","_","v","s","_","p","l","a","t","f","o","r","m">>,
    <<"g","e","t","_","e","x","p","a","n","d","e","d">>,
    <<"i","s","_","e","x","p","a","n","d","a","b","l","e">>,
    <<"l","o","o","k","u","p">>,
    <<"d","e","f","a","u","l","t">>
  >>

IDE_VS_ALIASES ==
  <<
    <<"v","s">>,
    <<"v","i","s","u","a","l","s","t","u","d","i","o">>,
    <<"v","i","s","u","a","l","_","s","t","u","d","i","o">>,
    <<"v","i","s","u","a","l"," ","s","t","u","d","i","o">>
  >>

IDE_XCODE_ALIASES ==
  <<
    <<"x","c","o","d","e">>
  >>

IDE_CW_ALIASES ==
  <<
    <<"c","o","d","e","w","a","r","r","i","o","r">>,
    <<"m","e","t","r","o","w","e","r","k","s">>,
    <<"c","w">>,
    <<"f","r","e","e","s","c","a","l","e">>
  >>

----------------------------------------------------------------------------
(* PlatformTypes predicates *)

is_windows(self) == self \in {"windows", "win32", "win64"}

is_macosx(self) ==
  self \in {"macosx", "macosxppc32", "macosxppc64", "macosxintel32", "macosxintel64"}

is_ios(self) ==
  self \in {"ios", "ios32", "ios64", "iosemu", "iosemu32", "iosemu64"}

is_macos_carbon(self) == self \in {"maccarbon", "maccarbon68k", "maccarbonppc"}

is_macos_classic(self) == self \in {"macos9", "macos968k", "macos9ppc"}

is_msdos(self) == self \in {"msdos", "msdos4gw", "msdosx32"}

is_android(self) ==
  self \in {"android", "shield", "ouya", "amico", "androidarm32",
            "androidarm64", "androidintel32", "androidintel64"}

\* A match that only looks at self when testing for a family wildcard.
PlatformTypes_match_onesided(self, second) ==
  IF self = second THEN TRUE
  ELSE IF self = "windows" THEN is_windows(self) = is_windows(second)
  ELSE IF self = "macosx" THEN is_macosx(self) = is_macosx(second)
  ELSE IF self = "macos9" THEN is_macos_classic(self) = is_macos_classic(second)
  ELSE IF self = "maccarbon" THEN is_macos_carbon(self) = is_macos_carbon(second)
  ELSE IF self = "ios" THEN is_ios(self) = is_ios(second)
  ELSE IF self = "msdos" THEN is_msdos(self) = is_msdos(second)
  ELSE IF self = "android" THEN is_android(self) = is_android(second)
  ELSE FALSE

PlatformTypes_match(self, second) ==
  IF self = second THEN TRUE
  ELSE IF self = "windows" \/ second = "windows"
    THEN is_windows(self) = is_windows(second)
  ELSE IF self = "macosx" \/ second = "macosx"
    THEN is_macosx(self) = is_macosx(second)
  ELSE IF self = "macos9" \/ second = "macos9"
    THEN is_macos_classic(self) = is_macos_classic(second)
  ELSE IF self = "maccarbon" \/ second = "maccarbon"
    THEN is_macos_carbon(self) = is_macos_carbon(second)
  ELSE IF self = "ios" \/ second = "ios"
    THEN is_ios(self) = is_ios(second)
  ELSE IF self = "msdos" \/ second = "msdos"
    THEN is_msdos(self) = is_msdos(second)
  ELSE IF self = "android" \/ second = "android"
    THEN is_android(self) = is_android(second)
  ELSE FALSE

\* get_expanded(): the members of a family, or the platform alone.
get_expanded(self) ==
  IF Has(PLATFORMTYPES_EXPANDED, self)
  THEN Get(PLATFORMTYPES_EXPANDED, self)
  ELSE <<self>>

is_expandable(self) == Has(PLATFORMTYPES_EXPANDED, self)

----------------------------------------------------------------------------
(* Python values handed to lookup(): an enumeration member or a string.    *)

PyMember(m) == <<"member", m>>
PyStr(s) == <<"str", s>>

IsMember(v) == v[1] = "member"
IsStr(v) == v[1] = "str"

\* hasattr(Enum, name): true for a member's identifier and for every other
\* attribute of the class (its methods).
hasattr(enum, attributes, name) ==
  \/ \E i \in 1..Len(enum) : enum[i][2] = name
  \/ InTuple(name, attributes)

\* Enum[name]: the member with that identifier; KeyError when name is not
\* a member, even if it is an attribute of the class.
getitem(enum, name) ==
  IF \E i \in 1..Len(enum) : enum[i][2] = name
  THEN enum[CHOOSE i \in 1..Len(enum) : enum[i][2] = name][1]
  ELSE KeyError

\* "for item in table: if test(item): return item" -- the first member of
\* the table, in its order, among those that pass the test (passing); None
\* when the loop falls through.
FirstItem(table, passing) ==
  IF \E i \in 1..Len(table) : table[i][1] \in passing
  THEN table[CHOOSE i \in 1..Len(table) :
               /\ table[i][1] \in passing
               /\ \A j \in 1..(i - 1) : table[j][1] \notin passing][1]
  ELSE None

----------------------------------------------------------------------------
(* ProjectTypes.lookup *)

ProjectTypes_lookup(project_type_name) ==
  IF IsMember(project_type_name)
  THEN \* "if project_type_name:" comes before the isinstance() test
       IF Truthy(ProjectTypes, project_type_name[2])
       THEN project_type_name[2]
       ELSE None
  ELSE
    LET name == project_type_name[2]
        test_name == str_lower(name)
        verbose == FirstItem(PROJECTTYPES_READABLE,
                     {item \in Members(PROJECTTYPES_READABLE) :
                        test_name = str_lower(Get(PROJECTTYPES_READABLE, item))})
    IN  IF Len(name) = 0 THEN None
        ELSE IF hasattr(ProjectTypes, ProjectTypes_attributes, name)
          THEN getitem(ProjectTypes, name)
        ELSE IF verbose # None THEN verbose
        ELSE IF InTuple(test_name, << <<"l","i","b">> >>) THEN "library"
        ELSE IF InTuple(test_name, << <<"g","a","m","e">> >>) THEN "app"
        ELSE IF InTuple(test_name, << <<"d","l","l">> >>) THEN "sharedlibrary"
        ELSE None

----------------------------------------------------------------------------
(* The host: which toolchains are installed.  vs and xcode are the sets of *)
(* installed versions (as IDETypes members); xcode_first is the installed  *)
(* Xcode that the iteration over xcode_table meets first.                  *)

NoHost == [vs |-> {}, xcode |-> {}, xcode_first |-> None]

vs_studio_table ==
  <<"vs2019", "vs2017", "vs2015", "vs2013", "vs2012",
    "vs2010", "vs2008", "vs2005", "vs2003">>

xcode_table ==
  {"xcode10", "xcode9", "xcode8", "xcode7", "xcode6", "xcode5", "xcode4", "xcode3"}

\* The most recent installed Visual Studio: vs_studio_table is a tuple,
\* scanned from 2019 down.
get_installed_visual_studio(host) ==
  IF \E i \in 1..Len(vs_studio_table) : vs_studio_table[i] \in host.vs
  THEN vs_studio_table[CHOOSE i \in 1..Len(vs_studio_table) :
         /\ vs_studio_table[i] \in host.vs
         /\ \A j \in 1..(i - 1) : vs_studio_table[j] \notin host.vs]
  ELSE None

\* xcode_table is a set literal: its iteration order is not the order it is
\* written in, so the installed version met first is whichever the host's
\* iteration order puts first.
get_installed_xcode(host) ==
  IF host.xcode = {} THEN None ELSE host.xcode_first

----------------------------------------------------------------------------
(* IDETypes.lookup *)

IDETypes_lookup(ide_name, host) ==
  IF IsMember(ide_name)
  THEN IF Truthy(IDETypes, ide_name[2]) THEN ide_name[2] ELSE None
  ELSE
    LET name == ide_name[2]
        test_name == str_lower(name)
        found == FirstItem(IDETYPES_READABLE,
                   {item \in Members(IDETYPES_READABLE) :
                      \/ test_name = str_lower(Get(IDETYPES_READABLE, item))
                      \/ test_name = Get(IDETYPES_CODES, item)})
    IN  IF Len(name) = 0 THEN None
        ELSE IF hasattr(IDETypes, IDETypes_attributes, test_name)
          THEN getitem(IDETypes, test_name)
        ELSE IF found # None THEN found
        ELSE IF InTuple(name, IDE_VS_ALIASES) THEN get_installed_visual_studio(host)
        ELSE IF InTuple(name, IDE_XCODE_ALIASES) THEN get_installed_xcode(host)
        ELSE IF InTuple(name, IDE_CW_ALIASES) THEN "codewarrior50"
        ELSE None

----------------------------------------------------------------------------
(* PlatformTypes.lookup *)

\* A loop body that forgets the short-code comparison.
PlatformTypes_lookup_test_nocode(test_name, item) ==
  \/ test_name = str_lower(Get(PLATFORMTYPES_READABLE, item))
  \/ /\ ~is_expandable(item)
     /\ Has(PLATFORMTYPES_VS, item)
     /\ \E k \in 1..Len(Get(PLATFORMTYPES_VS, item)) :
          test_name = str_lower(Get(PLATFORMTYPES_VS, item)[k])

\* One pass of the loop body for item: verbose name, short code, or (for a
\* platform that is not a family) one of its Visual Studio target names.
PlatformTypes_lookup_test(test_name, item) ==
  \/ test_name = str_lower(Get(PLATFORMTYPES_READABLE, item))
  \/ test_name = Get(PLATFORMTYPES_CODES, item)
  \/ /\ ~is_expandable(item)
     /\ Has(PLATFORMTYPES_VS, item)
     /\ \E k \in 1..Len(Get(PLATFORMTYPES_VS, item)) :
          test_name = str_lower(Get(PLATFORMTYPES_VS, item)[k])

PlatformTypes_lookup(platform_name) ==
  IF IsMember(platform_name)
  THEN IF Truthy(PlatformTypes, platform_name[2]) THEN platform_name[2] ELSE None
  ELSE
    LET name == platform_name[2]
        test_name == str_lower(name)
        found == FirstItem(PLATFORMTYPES_READABLE,
                   {item \in Members(PLATFORMTYPES_READABLE) :
                      PlatformTypes_lookup_test(test_name, item)})
    IN  IF Len(name) = 0 THEN None
        ELSE IF hasattr(PlatformTypes, PlatformTypes_attributes, test_name)
          THEN getitem(PlatformTypes, test_name)
        ELSE found

----------------------------------------------------------------------------
(* PlatformTypes.default *)

\* windows_host_type and mac_host_type are what get_windows_host_type() and
\* get_mac_host_type() return: "False" or the name of the host's CPU.
mac_table_get(temp) ==
  CASE temp = "ppc" -> "macosxppc32"
    [] temp = "ppc64" -> "macosxppc64"
    [] temp = "x32" -> "macosxintel32"
    [] temp = "x64" -> "macosxintel64"
    [] OTHER -> "macosxintel64"

PlatformTypes_default(windows_host_type, mac_host_type) ==
  IF windows_host_type # "False"
  THEN IF windows_host_type = "x64" THEN "win64" ELSE "win32"
  ELSE \* On a Mac host mac_table.get(...) is evaluated and its value is
       \* dropped: the statement has no "return", control falls through.
       LET dropped == IF mac_host_type # "False"
                      THEN mac_table_get(mac_host_type)
                      ELSE None
       IN  "linux"

----------------------------------------------------------------------------
(* IDETypes.default and defaults.fixup_ide_platform.  An environment is    *)
(* the host: what get_windows_host_type() and get_mac_host_type() return,  *)
(* the installed IDEs, and whether where_is_codeblocks() and               *)
(* where_is_watcom() find anything.                                        *)

IDETypes_default(env) ==
  IF env.windows # "False" /\ get_installed_visual_studio(env.host) # None
    THEN get_installed_visual_studio(env.host)
  ELSE IF env.windows = "False" /\ env.mac # "False"
          /\ get_installed_xcode(env.host) # None
    THEN get_installed_xcode(env.host)
  ELSE IF env.codeblocks THEN "codeblocks"
  ELSE IF env.watcom THEN "watcom"
  ELSE "make"

\* A fixup that, given two empty lists, fills in the platform only.
fixup_ide_platform_platform_only(ide_list, platform_list, env) ==
  IF platform_list = <<>>
  THEN [ide_list |-> ide_list,
        platform_list |-> <<PlatformTypes_default(env.windows, env.mac)>>]
  ELSE IF ide_list = <<>>
  THEN [ide_list |->
          IF InTuple("xbox360", platform_list) THEN <<"vs2010">>
          ELSE IF InTuple("ps3", platform_list) THEN <<"vs2010">>
          ELSE IF InTuple("ps4", platform_list) THEN <<"vs2010">>
          ELSE IF InTuple("vita", platform_list) THEN <<"vs2010">>
          ELSE IF InTuple("shield", platform_list) THEN <<"vs2010">>
          ELSE IF InTuple("wiiu", platform_list) THEN <<"vs2013">>
          ELSE <<IDETypes_default(env)>>,
        platform_list |-> platform_list]
  ELSE [ide_list |-> ide_list, platform_list |-> platform_list]

\* fixup_ide_platform(ide_list, platform_list) appends to the two lists in
\* place; the value is the two lists as they are on return.
fixup_ide_platform(ide_list, platform_list, env) ==
  IF platform_list = <<>> /\ ide_list = <<>>
  THEN [ide_list |-> <<IDETypes_default(env)>>,
        platform_list |-> <<PlatformTypes_default(env.windows, env.mac)>>]
  ELSE IF platform_list = <<>>
  THEN [ide_list |-> ide_list,
        platform_list |-> <<PlatformTypes_default(env.windows, env.mac)>>]
  ELSE IF ide_list = <<>>
  THEN [ide_list |->
          IF InTuple("xbox360", platform_list) THEN <<"vs2010">>
          ELSE IF InTuple("ps3", platform_list) THEN <<"vs2010">>
          ELSE IF InTuple("ps4", platform_list) THEN <<"vs2010">>
          ELSE IF InTuple("vita", platform_list) THEN <<"vs2010">>
          ELSE IF InTuple("shield", platform_list) THEN <<"vs2010">>
          ELSE IF InTuple("wiiu", platform_list) THEN <<"vs2013">>
          ELSE <<IDETypes_default(env)>>,
        platform_list |-> platform_list]
  ELSE [ide_list |-> ide_list, platform_list |-> platform_list]

----------------------------------------------------------------------------
(* new_configuration (makeprojects/__init__.py) *)

PyNone == <<"none", None>>

\* core.Configuration(name, platform, project_type)
Configuration(name, platform, project_type) ==
  [name |-> name, platform |-> platform, project_type |-> project_type]

\* "if platform:" -- None, the empty string and the member of value 0 are false.
platform_truth(platform) ==
  IF IsMember(platform) THEN Truthy(PlatformTypes, platform[2])
  ELSE IF IsStr(platform) THEN Len(platform[2]) # 0
  ELSE FALSE

\* What a false platform argument is passed on as: the member itself, or None.
platform_as_given(platform) ==
  IF IsMember(platform) THEN platform[2] ELSE None

\* The configurations appended for one name, given the looked-up platform.
expand_configurations(name, platform_type, project_type) ==
  [k \in 1..Len(get_expanded(platform_type)) |->
     Configuration(name, get_expanded(platform_type)[k], project_type)]

RECURSIVE new_configuration_loop(_, _, _, _)
new_configuration_loop(name_array, platform, project_type, results) ==
  IF name_array = <<>> THEN results
  ELSE
    IF platform_truth(platform)
    THEN new_configuration_loop(Tail(name_array), platform, project_type,
           results \o expand_configurations(Head(name_array),
                        PlatformTypes_lookup(platform), project_type))
    ELSE new_configuration_loop(Tail(name_array), platform, project_type,
           Append(results,
                  Configuration(Head(name_array), platform_as_given(platform), project_type)))

\* The outcome: raises names the exception raised by the first iteration
\* (None when the call returns) and results is the list built; a list of
\* one configuration is returned as that object itself.
new_configuration(name_array, platform, project_type) ==
  IF name_array # <<>> /\ platform_truth(platform)
     /\ PlatformTypes_lookup(platform) \in {None, KeyError}
  THEN [raises |-> IF PlatformTypes_lookup(platform) = None
                   THEN TypeError ELSE KeyError,
        results |-> <<>>]
  ELSE [raises |-> None,
        results |-> new_configuration_loop(name_array, platform, project_type, <<>>)]

----------------------------------------------------------------------------
(* SourceFile (makeprojects/__init__.py and core.py) *)

\* burger.convert_to_windows_slashes(): every '/' becomes '\'.
convert_to_windows_slashes(s) ==
  [i \in 1..Len(s) |-> IF s[i] = "/" THEN "\\" ELSE s[i]]

\* burger.convert_to_linux_slashes(): every '\' becomes '/'.
convert_to_linux_slashes(s) ==
  [i \in 1..Len(s) |-> IF s[i] = "\\" THEN "/" ELSE s[i]]

\* s.rfind(ch): the highest 0-based index of ch in s, -1 when absent.
rfind(s, ch) ==
  IF \E i \in 1..Len(s) : s[i] = ch
  THEN (CHOOSE i \in 1..Len(s) : s[i] = ch /\ \A j \in (i + 1)..Len(s) : s[j] # ch) - 1
  ELSE -1

\* s.startswith(prefix)
startswith(s, prefix) ==
  /\ Len(prefix) <= Len(s)
  /\ SubSeq(s, 1, Len(prefix)) = prefix

\* s[a:b] with 0 <= a, b <= len(s)
Slice(s, a, b) == SubSeq(s, a + 1, b)

\* while newname.startswith(prefix): newname = newname[n:len(newname)]
RECURSIVE strip_while(_, _, _)
strip_while(newname, prefix, n) ==
  IF startswith(newname, prefix)
  THEN strip_while(Slice(newname, n, Len(newname)), prefix, n)
  ELSE newname

\* if newname.startswith(prefix): newname = newname[n:len(newname)]
strip_once(newname, prefix, n) ==
  IF startswith(newname, prefix)
  THEN Slice(newname, n, Len(newname))
  ELSE newname

\* makeprojects.SourceFile.extractgroupname
extractgroupname(filename) ==
  LET slash == IF rfind(filename, "\\") # -1 THEN "\\" ELSE "/"
      index == rfind(filename, slash)
      newname == Slice(filename, 0, index)
  IN  IF index = -1 THEN <<>>
      ELSE strip_while(strip_while(newname, <<".", ".", slash>>, 3),
                       <<".", slash>>, 2)

\* makeprojects.core.SourceFile.extractgroupname
core_extractgroupname(filename) ==
  LET index == rfind(filename, "\\")
      newname == Slice(filename, 0, index)
  IN  IF index = -1 THEN <<>>
      ELSE strip_once(strip_while(newname, <<".", ".", "\\">>, 3),
                      <<".", "\\">>, 2)

----------------------------------------------------------------------------
(* String comparison *)

\* The characters of the model in code-point order.
CodePoints ==
  <<" ", "+", "-", ".", "/",
    "0","1","2","3","4","5","6","7","8","9",
    "A","B","C","D","E","F","G","H","I","J","K","L","M",
    "N","O","P","Q","R","S","T","U","V","W","X","Y","Z",
    "\\", "_",
    "a","b","c","d","e","f","g","h","i","j","k","l","m",
    "n","o","p","q","r","s","t","u","v","w","x","y","z">>

ord(c) == CHOOSE i \in 1..Len(CodePoints) : CodePoints[i] = c

\* cmp(x, y) for strings: -1, 0 or 1 by the first differing character, a
\* proper prefix being smaller.
RECURSIVE cmp(_, _)
cmp(x, y) ==
  IF x = <<>> /\ y = <<>> THEN 0
  ELSE IF x = <<>> THEN -1
  ELSE IF y = <<>> THEN 1
  ELSE IF ord(Head(x)) < ord(Head(y)) THEN -1
  ELSE IF ord(Head(x)) > ord(Head(y)) THEN 1
  ELSE cmp(Tail(x), Tail(y))

\* s.endswith(suffix)
endswith(s, suffix) ==
  /\ Len(suffix) <= Len(s)
  /\ SubSeq(s, Len(s) - Len(suffix) + 1, Len(s)) = suffix

\* sorted(names, key=...): a stable sort; x goes after every entry whose key
\* is not greater.  lower tells whether the key is the lowercased name.
sort_key(name, lower) == IF lower THEN str_lower(name) ELSE name

RECURSIVE insert_name(_, _, _)
insert_name(sorted, x, lower) ==
  IF sorted = <<>> THEN <<x>>
  ELSE IF cmp(sort_key(Head(sorted), lower), sort_key(x, lower)) > 0
       THEN <<x>> \o sorted
       ELSE <<Head(sorted)>> \o insert_name(Tail(sorted), x, lower)

RECURSIVE sorted_names(_, _, _)
sorted_names(sorted, names, lower) ==
  IF names = <<>> THEN sorted
  ELSE sorted_names(insert_name(sorted, Head(names), lower), Tail(names), lower)

----------------------------------------------------------------------------
(* makeprojects.core: file types by extension *)

defaultcodeextensions ==
  <<
    <<<<".","c">>, "cpp">>,  \* .c
    <<<<".","c","c">>, "cpp">>,  \* .cc
    <<<<".","c","p","p">>, "cpp">>,  \* .cpp
    <<<<".","c","+","+">>, "cpp">>,  \* .c++
    <<<<".","h","p","p">>, "h">>,  \* .hpp
    <<<<".","h">>, "h">>,  \* .h
    <<<<".","h","h">>, "h">>,  \* .hh
    <<<<".","i">>, "h">>,  \* .i
    <<<<".","i","n","c">>, "h">>,  \* .inc
    <<<<".","m">>, "m">>,  \* .m
    <<<<".","p","l","i","s","t">>, "xml">>,  \* .plist
    <<<<".","r","c">>, "rc">>,  \* .rc
    <<<<".","r">>, "r">>,  \* .r
    <<<<".","r","s","r","c">>, "r">>,  \* .rsrc
    <<<<".","h","l","s","l">>, "hlsl">>,  \* .hlsl
    <<<<".","v","s","h">>, "glsl">>,  \* .vsh
    <<<<".","f","s","h">>, "glsl">>,  \* .fsh
    <<<<".","g","l","s","l">>, "glsl">>,  \* .glsl
    <<<<".","x","3","6","0","s","l">>, "x360sl">>,  \* .x360sl
    <<<<".","v","i","t","a","c","g">>, "vitacg">>,  \* .vitacg
    <<<<".","x","m","l">>, "xml">>,  \* .xml
    <<<<".","a","6","5">>, "a65">>,  \* .a65
    <<<<".","x","8","6">>, "x86">>,  \* .x86
    <<<<".","i","c","o">>, "ico">>,  \* .ico
    <<<<".","i","c","n","s">>, "icns">>,  \* .icns
    <<<<".","p","n","g">>, "image">>,  \* .png
    <<<<".","j","p","g">>, "image">>,  \* .jpg
    <<<<".","b","m","p">>, "image">>  \* .bmp
  >>

----------------------------------------------------------------------------
(* The working directory.  A file system is a record: files is the set of  *)
(* file names in the root, dirs maps each subdirectory of the root to the  *)
(* set of file names in it.                                                *)

\* The components of a directory string, split at either slash, without
\* the "." components.
RECURSIVE components(_, _)
components(s, current) ==
  IF s = <<>>
  THEN IF current \in {<<>>, <<".">>} THEN <<>> ELSE <<current>>
  ELSE IF Head(s) \in {"/", "\\"}
    THEN (IF current \in {<<>>, <<".">>} THEN <<>> ELSE <<current>>)
           \o components(Tail(s), <<>>)
    ELSE components(Tail(s), Append(current, Head(s)))

\* os.path.isdir(os.path.join(workingDir, directory))
isdir(fs, directory) ==
  LET path == components(directory, <<>>)
  IN  \/ path = <<>>
      \/ Len(path) = 1 /\ path[1] \in DOMAIN fs.dirs

\* The names in a directory that exists.
entries(fs, directory) ==
  LET path == components(directory, <<>>)
  IN  IF path = <<>> THEN fs.files \cup DOMAIN fs.dirs ELSE fs.dirs[path[1]]

\* os.path.isfile(os.path.join(searchDir, baseName))
isfile(fs, directory, baseName) ==
  LET path == components(directory, <<>>)
  IN  IF path = <<>> THEN baseName \in fs.files ELSE baseName \in fs.dirs[path[1]]

\* A SourceFile of makeprojects.core: the file name is kept with windows
\* slashes.
SourceFile(filename, directory, type) ==
  [filename |-> convert_to_windows_slashes(filename),
   directory |-> directory,
   type |-> type]

\* An exclusion test that compares with the entries as they were written.
excluded_as_written(testName, exclude) ==
  \E i \in 1..Len(exclude) : testName = exclude[i]

\* "for item in self.exclude: if testName == item.lower()"
excluded(testName, exclude) ==
  \E i \in 1..Len(exclude) : testName = str_lower(exclude[i])

\* "for item in defaultcodeextensions: if testName.endswith(item[0])":
\* the index of the first extension that matches, 0 when none does.
first_extension(testName) ==
  IF \E i \in 1..Len(defaultcodeextensions) :
       endswith(testName, defaultcodeextensions[i][1])
  THEN CHOOSE i \in 1..Len(defaultcodeextensions) :
         /\ endswith(testName, defaultcodeextensions[i][1])
         /\ \A j \in 1..(i - 1) : ~endswith(testName, defaultcodeextensions[j][1])
  ELSE 0

\* SolutionData.scandirectory.  self carries workingDir, exclude, the host's
\* os.sep and listdir, the order in which the host lists each directory.
\* scan_names is the loop over nameList from position i on; found is the
\* flag that records that directory was added to includedirectories.
RECURSIVE scandirectory(_, _, _, _, _, _)
RECURSIVE scan_names(_, _, _, _, _, _, _, _, _)

scan_names(self, directory, nameList, i, codefiles, includedirectories, found, recurse, acceptable) ==
  IF i > Len(nameList) THEN <<codefiles, includedirectories>>
  ELSE
    LET baseName == nameList[i]
        testName == str_lower(baseName)
        ext == first_extension(testName)
        newfilename == IF directory = <<".">> THEN baseName
                       ELSE directory \o self.ossep \o baseName
        inner == scandirectory(self, directory \o self.ossep \o baseName,
                               codefiles, includedirectories, recurse, acceptable)
    IN  IF excluded(testName, self.exclude)
        THEN scan_names(self, directory, nameList, i + 1, codefiles,
                        includedirectories, found, recurse, acceptable)
        ELSE IF isfile(self.workingDir, directory, baseName)
        THEN IF ext # 0 /\ InTuple(defaultcodeextensions[ext][2], acceptable)
             THEN scan_names(self, directory, nameList, i + 1,
                    Append(codefiles,
                           SourceFile(newfilename, directory,
                                      defaultcodeextensions[ext][2])),
                    IF found THEN includedirectories
                    ELSE Append(includedirectories, directory),
                    TRUE, recurse, acceptable)
             ELSE scan_names(self, directory, nameList, i + 1, codefiles,
                             includedirectories, found, recurse, acceptable)
        ELSE IF recurse /\ isdir(self.workingDir, directory \o self.ossep \o baseName)
        THEN scan_names(self, directory, nameList, i + 1, inner[1], inner[2],
                        found, recurse, acceptable)
        ELSE scan_names(self, directory, nameList, i + 1, codefiles,
                        includedirectories, found, recurse, acceptable)

scandirectory(self, directory, codefiles, includedirectories, recurse, acceptable) ==
  IF isdir(self.workingDir, directory)
  THEN scan_names(self, directory, self.listdir[components(directory, <<>>)], 1,
                  codefiles, includedirectories, FALSE, recurse, acceptable)
  ELSE <<codefiles, includedirectories>>

\* sorted(codefiles, cmp=lambda x,y: cmp(x.filename,y.filename)): a stable
\* sort; insert places x after every entry that does not compare greater.
RECURSIVE insert(_, _)
insert(sorted, x) ==
  IF sorted = <<>> THEN <<x>>
  ELSE IF cmp(Head(sorted).filename, x.filename) > 0 THEN <<x>> \o sorted
  ELSE <<Head(sorted)>> \o insert(Tail(sorted), x)

RECURSIVE insert_all(_, _)
insert_all(sorted, codefiles) ==
  IF codefiles = <<>> THEN sorted
  ELSE insert_all(insert(sorted, Head(codefiles)), Tail(codefiles))

\* A getfilelist that returns the files in the order they were scanned.
unsorted_by_filename(codefiles) == codefiles

sorted_by_filename(codefiles) == insert_all(<<>>, codefiles)

\* The loop of getfilelist over self.sourcefolders from position i on.
RECURSIVE scan_folders(_, _, _, _, _)
scan_folders(self, i, codefiles, includedirectories, acceptable) ==
  IF i > Len(self.sourcefolders) THEN <<codefiles, includedirectories>>
  ELSE
    LET item == self.sourcefolders[i]
        recurse == endswith(item, <<"/", "*", ".", "*">>)
        folder == IF recurse THEN Slice(item, 0, Len(item) - 4) ELSE item
        scanned == scandirectory(self, folder, codefiles, includedirectories,
                                 recurse, acceptable)
    IN  scan_folders(self, i + 1, scanned[1], scanned[2], acceptable)

\* SolutionData.getfilelist: <<codefiles, includedirectories>>
getfilelist(self, acceptable) ==
  LET scanned == scan_folders(self, 1, self.codefiles, <<>>, acceptable)
  IN  <<sorted_by_filename(scanned[1]), scanned[2]>>

----------------------------------------------------------------------------
(* makeprojects.core: the command line shell run(), SolutionData.process   *)
(* and the two generators of core.py that need no other module,            *)
(* createcodewarriorsolution and createwatcomsolution.  The text of a      *)
(* project file is the record of the values the generator writes into it.  *)

\* The fields of SolutionData() that a description record can set.
SolutionData ==
  [ide |-> "vs2010",
   platform |-> "windows",
   kind |-> "tool",
   projectname |-> "project",
   configurations |-> <<"Debug", "Internal", "Release">>,
   finalfolder |-> None,
   exclude |-> <<>>,
   defines |-> <<>>,
   sourcefolders |-> << <<".">> >>,
   includefolders |-> <<>>]

\* A processjson that lets a key it does not know pass.
processjson_key_tolerant(self, key, value) ==
  IF key \in DOMAIN self
  THEN [error |-> 0, self |-> [self EXCEPT ![key] = value]]
  ELSE [error |-> 0, self |-> self]

\* The body of the loop of processjson for one key: the error and the
\* solution after it.  The keys 'xcode' and 'visualstudio' are handed to
\* modules of their own and are not in the records modelled.
processjson_key(self, key, value) ==
  IF key = "finalfolder"
  THEN [error |-> 0,
        self |-> [self EXCEPT !.finalfolder = IF value = "" THEN None ELSE value]]
  ELSE IF key \in {"kind", "projectname", "platform", "configurations",
                   "sourcefolders", "exclude", "defines", "includefolders"}
  THEN [error |-> 0, self |-> [self EXCEPT ![key] = value]]
  ELSE [error |-> 1, self |-> self]

\* SolutionData.processjson: myjson is the record as the sequence of its
\* <<key, value>> pairs in the order myjson.keys() yields them.
RECURSIVE processjson_loop(_, _, _)
processjson_loop(self, myjson, i) ==
  IF i > Len(myjson) THEN [error |-> 0, self |-> self]
  ELSE LET step == processjson_key(self, myjson[i][1], myjson[i][2])
       IN  IF step.error # 0 THEN step
           ELSE processjson_loop(step.self, myjson, i + 1)

processjson(self, myjson) == processjson_loop(self, myjson, 1)

\* SolutionData.getidecode
getidecode(self) ==
  IF self.ide = "xcode3" THEN "xc3"
  ELSE IF self.ide = "xcode4" THEN "xc4"
  ELSE IF self.ide = "xcode5" THEN "xc5"
  ELSE IF self.ide = "vs2003" THEN "vc7"
  ELSE IF self.ide = "vs2005" THEN "vc8"
  ELSE IF self.ide = "vs2008" THEN "vc9"
  ELSE IF self.ide = "vs2010" THEN "v10"
  ELSE IF self.ide = "vs2012" THEN "v11"
  ELSE IF self.ide = "vs2013" THEN "v13"
  ELSE IF self.ide = "vs2015" THEN "v14"
  ELSE IF self.ide = "codeblocks" THEN "cdb"
  ELSE IF self.ide = "watcom" THEN "wat"
  ELSE IF self.ide = "codewarrior" /\ self.platform = "windows" THEN "cw9"
  ELSE IF self.ide = "codewarrior" /\ self.platform = "mac" THEN "c10"
  ELSE None

\* SolutionData.getplatformcode
getplatformcode(self) ==
  IF self.platform = "windows" THEN "win"
  ELSE IF self.platform = "macosx" THEN "osx"
  ELSE IF self.platform = "linux" THEN "lnx"
  ELSE IF self.platform = "ps3" THEN "ps3"
  ELSE IF self.platform = "ps4" THEN "ps4"
  ELSE IF self.platform = "vita" THEN "vit"
  ELSE IF self.platform = "xbox" THEN "xbx"
  ELSE IF self.platform = "xbox360" THEN "x36"
  ELSE IF self.platform = "xboxone" THEN "one"
  ELSE IF self.platform = "shield" THEN "shi"
  ELSE IF self.platform = "ios" THEN "ios"
  ELSE IF self.platform = "mac" THEN "mac"
  ELSE IF self.platform = "msdos" THEN "dos"
  ELSE IF self.platform = "beos" THEN "bos"
  ELSE IF self.platform = "ouya" THEN "oya"
  ELSE IF self.platform = "wiiu" THEN "wiu"
  ELSE None

\* pickfromfilelist(codefiles, itemtype)
pickfromfilelist(codefiles, itemtype) ==
  LET picked(item) == item.type = itemtype
  IN  SelectSeq(codefiles, picked)

\* solution.getfilelist(acceptable) for the solution of the run: the
\* working directory, the host and its listing are those of the state.
run_getfilelist(solution, host, acceptable) ==
  getfilelist([workingDir |-> host.workingDir,
               ossep |-> host.ossep,
               sourcefolders |-> solution.sourcefolders,
               exclude |-> solution.exclude,
               codefiles |-> <<>>,
               listdir |-> host.listdir], acceptable)[1]

\* "projectname + idecode + platformcode" raises TypeError when a code is
\* None.
projectfilename_raises(solution) ==
  getidecode(solution) = None \/ getplatformcode(solution) = None

projectfilename(solution) ==
  solution.projectname \o getidecode(solution) \o getplatformcode(solution)

\* getconfigurationcode(configuration).  The fallback, the configuration in
\* lower case, is given for the names that are lower case already.
getconfigurationcode(configuration) ==
  IF configuration = "Debug" THEN "dbg"
  ELSE IF configuration = "Release" THEN "rel"
  ELSE IF configuration = "Internal" THEN "int"
  ELSE IF configuration = "Profile" THEN "pro"
  ELSE configuration

\* createwatcomsolution: "filelist.append(burger.converttowindowsslashes(
\* item.filename))" for every item and "sorted(filelist, cmp=...)"
watcom_filelist(alllists) ==
  sorted_names(<<>>, [i \in 1..Len(alllists) |->
                       convert_to_windows_slashes(alllists[i].filename)], FALSE)

\* createwatcomsolution: the name an object file gets, the file name
\* without what follows its last '.' and without its directory.
watcom_obj_entry(item) ==
  LET entry == IF rfind(item, ".") = -1 THEN item ELSE Slice(item, 0, rfind(item, "."))
  IN  IF rfind(entry, "\\") = -1 THEN entry
      ELSE Slice(entry, rfind(entry, "\\") + 1, Len(entry))

\* createwatcomsolution: "for item in filelist: if not item.endswith('.h')",
\* the entries of the objs list.
watcom_objs(names) ==
  LET kept(item) == ~endswith(item, <<".", "h">>)
      items == SelectSeq(names, kept)
  IN  [i \in 1..Len(items) |-> watcom_obj_entry(items[i])]

\* createwatcomsolution: the platforms the makefile builds for.
watcom_platforms(solution) ==
  IF solution.platform = "msdos" THEN <<"x32", "dos4gw">>
  ELSE IF solution.platform = "windows" THEN <<"w32">>
  ELSE <<>>

\* createwatcomsolution: the rules that build the binaries, one for every
\* platform and configuration, in the order they are written.
watcom_builds(solution) ==
  LET platforms == watcom_platforms(solution)
      suffix == IF solution.kind = "library" THEN "lib" ELSE "exe"
      count == Len(solution.configurations)
      theplatform(k) == platforms[((k - 1) \div count) + 1]
      target(k) == solution.configurations[((k - 1) % count) + 1]
      short(k) == IF theplatform(k) = "dos4gw" THEN "4gw" ELSE theplatform(k)
  IN  [k \in 1..(Len(platforms) * count) |->
         [configuration |-> target(k),
          binary |-> "wat" \o short(k) \o getconfigurationcode(target(k))
                       \o "." \o suffix]]

\* createwatcomsolution after its call of getfilelist: the file it opens for
\* writing and what it writes.  It returns 0.
watcom_makefile(solution, codefiles) ==
  LET alllists == pickfromfilelist(codefiles, "h")
                    \o pickfromfilelist(codefiles, "cpp")
                    \o pickfromfilelist(codefiles, "x86")
  IN  [projectpathname |-> projectfilename(solution) \o ".wmk",
       text |-> [generator |-> "watcom",
                 projectname |-> solution.projectname,
                 platform |-> solution.platform,
                 kind |-> solution.kind,
                 configurations |-> solution.configurations,
                 finalfolder |-> solution.finalfolder,
                 filelist |-> watcom_filelist(alllists),
                 objs |-> watcom_objs(watcom_filelist(alllists)),
                 builds |-> watcom_builds(solution)],
       error |-> 0]

\* createwatcomsolution
createwatcomsolution(solution, host) ==
  watcom_makefile(solution, run_getfilelist(solution, host, <<"h", "cpp", "x86">>))

\* createcodewarriorsolution after its call of getfilelist and up to
\* fp.close(): the .mcp.xml file it opens for writing and what it writes.
codewarrior_xml(solution, host, codefiles) ==
  LET platformcode == getplatformcode(solution)
      listwindowsresource == IF platformcode = "win"
                             THEN pickfromfilelist(codefiles, "rc") ELSE <<>>
      alllists == pickfromfilelist(codefiles, "h")
                    \o pickfromfilelist(codefiles, "cpp")
                    \o listwindowsresource
  IN  [projectpathname |-> projectfilename(solution) \o ".mcp.xml",
       mcp |-> projectfilename(solution) \o ".mcp",
       text |-> [generator |-> "codewarrior",
                 projectname |-> solution.projectname,
                 platform |-> solution.platform,
                 kind |-> solution.kind,
                 configurations |-> solution.configurations,
                 finalfolder |-> solution.finalfolder,
                 filelist |-> [i \in 1..Len(alllists) |-> alllists[i].filename]],
       \* "if cwfile!=None and solution.platform=='windows'"
       converts |-> host.CWFolder # None /\ solution.platform = "windows"]

\* createcodewarriorsolution
createcodewarriorsolution(solution, host) ==
  codewarrior_xml(solution, host,
                  run_getfilelist(solution, host, <<"h", "cpp", "rc", "hlsl", "glsl">>))

\* What the CodeWarrior IDE leaves in the .mcp file it makes of an .mcp.xml.
ide_converted(text) == [text EXCEPT !.generator = "codewarrior ide"]

\* A file is written: open(name, 'w'), the writes and close().
written(files, name, text) == (name :> text) @@ files

\* os.remove(name)
removed(files, name) == [n \in DOMAIN files \ {name} |-> files[n]]

----------------------------------------------------------------------------
(* makeprojects.codewarrior and makeprojects.watcom: generate(solution).   *)
(* A Solution is the record of its attributes; it has one Project, which   *)
(* has the list of its Configurations.  An attribute that is not set is    *)
(* None.  The text of a project file is the record of what the exporter    *)
(* writes into it.                                                         *)

\* codewarrior.SUPPORTED_IDES
CODEWARRIOR_SUPPORTED_IDES == {"codewarrior50", "codewarrior58", "codewarrior59"}

\* watcom.SUPPORTED_IDES
WATCOM_SUPPORTED_IDES == {"watcom"}

\* codewarrior.test(ide, platform_type)
codewarrior_test(ide, platform_type) == platform_type \in {"win32"}

\* watcom.test(ide, platform_type)
watcom_test(ide, platform_type) == platform_type \in {"win32", "msdos4gw", "msdosx32"}

\* codewarrior.Project.__init__, the body of "for configuration in
\* project.configuration_list" as far as it assigns to the configuration.
codewarrior_configuration(platform, configuration) ==
  LET defaulted ==
        IF configuration.library_folders_list = <<>> /\ is_windows(platform)
        THEN [configuration EXCEPT
                !.library_folders_list =
                   <<"$(CodeWarrior)/MSL", "$(CodeWarrior)/Win32-x86 Support">>,
                !.libraries_list =
                   IF ~configuration.is_library
                   THEN Append(@, IF configuration.debug THEN "MSL_All_x86_D.lib"
                                                         ELSE "MSL_All_x86.lib")
                   ELSE @]
        ELSE configuration
  IN  [defaulted EXCEPT !.cw_name = configuration.name]

\* codewarrior.Project.__init__, the body of "for project in
\* solution.get_project_list()" as far as it assigns to the project.
codewarrior_project(project) ==
  LET platform == IF project.platform = None
                  THEN project.configuration_list[1].platform
                  ELSE project.platform
  IN  [project EXCEPT
         !.platform = platform,
         !.configuration_list =
            [i \in 1..Len(project.configuration_list) |->
               codewarrior_configuration(platform, project.configuration_list[i])]]

\* codewarrior.Project(solution): the solution it leaves.
codewarrior_Project(solution) ==
  [solution EXCEPT !.project = codewarrior_project(solution.project)]

\* codewarrior.Project.generate(line_list): the text, made of the targets of
\* the configurations with the linker of the project's platform.
codewarrior_lines(solution) ==
  LET project == solution.project
      linker == IF is_windows(project.platform) THEN "Win32 x86 Linker"
                ELSE "MacOS PPC Linker"
  IN  [generator |-> "codewarrior",
       name |-> solution.name,
       targets |-> [i \in 1..Len(project.configuration_list) |->
                      [name |-> project.configuration_list[i].cw_name,
                       linker |-> linker,
                       library_folders |-> project.configuration_list[i].library_folders_list,
                       libraries |-> project.configuration_list[i].libraries_list]]]

\* watcom.Project(solution) and watcom.Project.generate(line_list): the
\* text, made of the names and the platforms of the configurations.
watcom_lines(solution) ==
  LET configuration_list == solution.project.configuration_list
  IN  [generator |-> "watcom",
       name |-> solution.name,
       configuration_names |-> [i \in 1..Len(configuration_list) |->
                                  configuration_list[i].name],
       platforms |-> {configuration_list[i].platform :
                        i \in 1..Len(configuration_list)}]

\* '{}{}{}.mcp'.format(solution.name, solution.ide_code, solution.platform_code)
codewarrior_filename(solution) ==
  solution.name \o solution.ide_code \o solution.platform_code \o <<".","m","c","p">>

\* '{}{}{}.wmk'.format(solution.name, solution.ide_code, solution.platform_code)
watcom_filename(solution) ==
  solution.name \o solution.ide_code \o solution.platform_code \o <<".","w","m","k">>

\* burger.save_text_file_if_newer(filename, lines): the file is written when
\* it is not there or holds another text.
is_newer(files, name, text) == name \notin DOMAIN files \/ files[name] # text

save_text_file_if_newer(files, name, text) ==
  IF is_newer(files, name, text) THEN written(files, name, text) ELSE files

----------------------------------------------------------------------------
(* core.Configuration: chained attributes.  A configuration is the record  *)
(* of its own attributes and holds its owning project in the field         *)
(* project; an attribute that is not set is None.                          *)

\* A get_chained_value that asks the project first.
get_chained_value_project_first(configuration, name) ==
  IF configuration.project[name] # None THEN configuration.project[name]
  ELSE configuration[name]

\* Configuration.get_chained_value(name)
get_chained_value(configuration, name) ==
  IF configuration[name] # None THEN configuration[name]
  ELSE IF configuration.project[name] # None THEN configuration.project[name]
  ELSE None

----------------------------------------------------------------------------
(* makeprojects.codewarrior: the file groups of a project.  The GROUP      *)
(* objects below Project.group are kept by their paths: the tree maps the  *)
(* path of each GROUP (the names from the root down to it) to its lists    *)
(* groups (the names of its child GROUPs) and filerefs (the file names of  *)
(* its FILEREFs), both in the order they were appended.                    *)

\* GROUP(None)
GROUP == [groups |-> <<>>, filerefs |-> <<>>]

\* A GROUP.addfileref that does not look for the file name first.
addfileref_appending(tree, path, filename) ==
  [tree EXCEPT ![path].filerefs = Append(@, filename)]

\* GROUP.addfileref(platform, configuration, filename) on the GROUP at path
addfileref(tree, path, filename) ==
  IF InTuple(filename, tree[path].filerefs) THEN tree
  ELSE [tree EXCEPT ![path].filerefs = Append(@, filename)]

\* GROUP.addgroup(name) on the GROUP at path
addgroup(tree, path, name) ==
  IF InTuple(name, tree[path].groups) THEN tree
  ELSE (Append(path, name) :> GROUP) @@ [tree EXCEPT ![path].groups = Append(@, name)]

\* "while parts and (parts[0] == '.' or parts[0] == '..'): parts.pop(0)"
RECURSIVE discard_prefixes(_)
discard_prefixes(parts) ==
  IF parts # <<>> /\ (Head(parts) = <<".">> \/ Head(parts) = <<".", ".">>)
  THEN discard_prefixes(Tail(parts))
  ELSE parts

\* The "while True" loop of addtogroups with group at path.
RECURSIVE addtogroups_loop(_, _, _)
addtogroups_loop(tree, path, parts) ==
  IF Len(parts) = 1 THEN addfileref(tree, path, parts[1])
  ELSE addtogroups_loop(addgroup(tree, path, parts[1]), Append(path, parts[1]),
                        Tail(parts))

\* Project.addtogroups(platform, configuration, parts)
addtogroups(tree, parts) ==
  IF discard_prefixes(parts) = <<>> THEN tree
  ELSE addtogroups_loop(tree, <<>>, discard_prefixes(parts))

\* "groups = sorted(self.groups, key=operator.attrgetter('name'))"
generate_groups(groups) == sorted_names(<<>>, groups, FALSE)

\* "filerefs = sorted(self.filerefs, key=lambda s: s.filename.lower())"
generate_filerefs(filerefs) == sorted_names(<<>>, filerefs, TRUE)

\* GROUP.generate(line_list, level) of the GROUP at path: the element it
\* writes, with its GROUP elements and then its FILEREF elements in the
\* order they are written.
RECURSIVE GROUP_generate(_, _, _)
GROUP_generate(tree, path, name) ==
  [name |-> name,
   groups |-> [i \in 1..Len(tree[path].groups) |->
                 GROUP_generate(tree, Append(path, generate_groups(tree[path].groups)[i]),
                                generate_groups(tree[path].groups)[i])],
   filerefs |-> generate_filerefs(tree[path].filerefs)]

----------------------------------------------------------------------------
(* makeprojects.buildme: the project files, their kinds and priorities.    *)
(* A file name is the tuple of its characters; an entry of "projects" is   *)
(* the tuple (file_name, projecttype, priority).                           *)

\* The names and endings addproject compares a base name with
BUILDME_NAMES ==
  [prebuild |-> <<"p","r","e","b","u","i","l","d",".","p","y">>,
   slicerscript |-> <<".","s","l","i","c","e","r","s","c","r","i","p","t">>,
   rezscript |-> <<".","r","e","z","s","c","r","i","p","t">>,
   custombuild |-> <<"c","u","s","t","o","m","b","u","i","l","d",".","p","y">>,
   sln |-> <<".","s","l","n">>,
   mcp |-> <<".","m","c","p">>,
   makefile |-> <<"m","a","k","e","f","i","l","e">>,
   wmk |-> <<".","w","m","k">>,
   xcodeproj |-> <<".","x","c","o","d","e","p","r","o","j">>,
   cbp |-> <<".","c","b","p">>,
   doxyfile |-> <<"d","o","x","y","f","i","l","e">>,
   postbuild |-> <<"p","o","s","t","b","u","i","l","d",".","p","y">>]

\* os.path.basename: what follows the last slash
RECURSIVE os_path_basename(_)
os_path_basename(path) ==
  IF \E i \in 1..Len(path) : path[i] = "/"
  THEN os_path_basename(Tail(path))
  ELSE path

\* The if/elif chain of addproject: (projecttype, priority) of a file name
projecttype_priority(file_name) ==
  LET base_name_lower == str_lower(os_path_basename(file_name))
  IN  IF base_name_lower = BUILDME_NAMES.prebuild THEN <<"python", 1>>
      ELSE IF endswith(base_name_lower, BUILDME_NAMES.slicerscript) THEN <<"slicer", 20>>
      ELSE IF endswith(base_name_lower, BUILDME_NAMES.rezscript) THEN <<"makerez", 25>>
      ELSE IF base_name_lower = BUILDME_NAMES.custombuild THEN <<"python", 40>>
      ELSE IF endswith(base_name_lower, BUILDME_NAMES.sln) THEN <<"visualstudio", 45>>
      ELSE IF endswith(base_name_lower, BUILDME_NAMES.mcp) THEN <<"codewarrior", 50>>
      ELSE IF base_name_lower = BUILDME_NAMES.makefile \/ endswith(base_name_lower, BUILDME_NAMES.wmk)
        THEN <<"watcommakefile", 50>>
      ELSE IF endswith(base_name_lower, BUILDME_NAMES.xcodeproj) THEN <<"xcode", 50>>
      ELSE IF endswith(base_name_lower, BUILDME_NAMES.cbp) THEN <<"codeblocks", 50>>
      ELSE IF base_name_lower = BUILDME_NAMES.doxyfile THEN <<"doxygen", 90>>
      ELSE IF base_name_lower = BUILDME_NAMES.postbuild THEN <<"python", 99>>
      ELSE <<None, 50>>

\* addproject(projects, file_name): the list afterwards and the value returned
addproject(projects, file_name) ==
  LET found == projecttype_priority(file_name)
  IN  IF found[1] # None
      THEN [projects |-> Append(projects, <<file_name, found[1], found[2]>>),
            returned |-> TRUE]
      ELSE [projects |-> projects, returned |-> FALSE]

\* getprojects(projects, working_dir): addproject for every name os.listdir
\* gives, whatever it returns
RECURSIVE getprojects(_, _)
getprojects(projects, listing) ==
  IF listing = <<>> THEN projects
  ELSE getprojects(addproject(projects, Head(listing)).projects, Tail(listing))

\* main: "for file_name in args.args: if addproject(...) is False: return 10";
\* returned is FALSE when a name was not a known project file
RECURSIVE addprojects_named(_, _)
addprojects_named(projects, names) ==
  IF names = <<>> THEN [projects |-> projects, returned |-> TRUE]
  ELSE IF ~addproject(projects, Head(names)).returned
       THEN [projects |-> projects, returned |-> FALSE]
  ELSE addprojects_named(addproject(projects, Head(names)).projects, Tail(names))

\* Where sorted() puts an entry: after every entry whose key is not greater
RECURSIVE insert_by_priority(_, _)
insert_by_priority(sorted, entry) ==
  IF sorted = <<>> THEN <<entry>>
  ELSE IF Head(sorted)[3] <= entry[3]
       THEN <<Head(sorted)>> \o insert_by_priority(Tail(sorted), entry)
       ELSE <<entry>> \o sorted

\* A sort that leaves the list in the order of discovery.
sorted_by_priority_unsorted(projects, done) == done \o projects

\* sorted(projects, key=lambda entry: entry[2]): a stable sort
RECURSIVE sorted_by_priority(_, _)
sorted_by_priority(projects, done) ==
  IF projects = <<>> THEN done
  ELSE sorted_by_priority(Tail(projects), insert_by_priority(done, Head(projects)))

\* Inputs of the builders
\* Most project files of a run of buildme.
MaxProjects == 2

\* What a build command returns: zero or an error
ErrorCodes == {0, 1}

\* What the commands of a builder return, one after the other.
ErrorVectors(n) == [1..n -> ErrorCodes]

\* The targets the project files of the runs hold.
SlnTargets == <<"Debug|Win32", "Release|Win32">>
McpTargets == <<"Debug", "Release">>
XcodeTargets == <<"Debug", "Release">>

\* The files of the working directory w.
BuildFiles ==
  {<<"w","/","P","r","e","B","u","i","l","d",".","p","y">>,
   <<"w","/","a",".","r","e","z","s","c","r","i","p","t">>,
   <<"w","/","a",".","s","l","n">>,
   <<"w","/","a",".","w","m","k">>,
   <<"w","/","a",".","x","c","o","d","e","p","r","o","j">>,
   <<"w","/","D","o","x","y","f","i","l","e">>,
   <<"w","/","p","o","s","t","b","u","i","l","d",".","p","y">>,
   <<"w","/","r","e","a","d","m","e",".","t","x","t">>}

BuildFileLists ==
  {files \in UNION {[1..n -> BuildFiles] : n \in 0..MaxProjects} :
     \A i, j \in 1..Len(files) : files[i] = files[j] => i = j}

\* A command line and a host: named tells whether the files were named on
\* the command line or are what os.listdir found in the working directory.
BuildArgs ==
  {a \in [fatal : BOOLEAN, documentation : BOOLEAN, named : BOOLEAN,
          files : BuildFileLists, host : {"windows", "mac"}] :
     a.named => a.files # <<>>}

----------------------------------------------------------------------------
(* makeprojects.buildme: the builders.  What a build command returns is    *)
(* the host's choice, so a builder is the set of the values it can return: *)
(* a BuildError, a list of them or None, and whether a command was run.    *)

\* BuildError(error, filename, configuration)
BuildError(error_code, filename, configuration) ==
  [error |-> error_code, filename |-> filename, configuration |-> configuration]

returns_BuildError(berror, ran) == [kind |-> "BuildError", items |-> <<berror>>, ran |-> ran]
returns_list(results) == [kind |-> "list", items |-> results, ran |-> TRUE]
returns_None == [kind |-> "None", items |-> <<>>, ran |-> FALSE]

WATCOM_PLATFORM_LIST == <<"dos4gw", "dosx32", "win32">>
DEFAULT_CONFIGURATION_LIST == <<"Debug", "Internal", "Release">>

\* The loop over the commands (or targets) of a builder: one BuildError per
\* command run; "if error and fatal: break" when stop is true
RECURSIVE run_commands(_, _, _, _)
run_commands(full_pathname, targets, errors, stop) ==
  IF targets = <<>> THEN <<>>
  ELSE <<BuildError(Head(errors), full_pathname, Head(targets))>>
         \o (IF Head(errors) # 0 /\ stop THEN <<>>
             ELSE run_commands(full_pathname, Tail(targets), Tail(errors), stop))

\* burger.run_py_script(fullpathname, 'main', ...) wrapped in a BuildError
run_py_script(full_pathname) ==
  {returns_BuildError(BuildError(e, full_pathname, None), TRUE) : e \in ErrorCodes}

\* build_rez_script and build_slicer_script: one command
build_script(full_pathname) ==
  {returns_BuildError(BuildError(e, full_pathname, None), TRUE) : e \in ErrorCodes}

\* build_doxygen: error 10 without Doxygen, else 10 when it wrote to stderr
build_doxygen(full_pathname) ==
  {returns_BuildError(BuildError(10, full_pathname, None), FALSE)}
    \cup {returns_BuildError(BuildError(e, full_pathname, None), TRUE) : e \in {0, 10}}

\* build_watcom_makefile: the targets of the commands
watcom_commands(full_pathname) ==
  IF endswith(str_lower(full_pathname), BUILDME_NAMES.wmk) THEN <<"all">>
  ELSE [k \in 1..(Len(WATCOM_PLATFORM_LIST) * Len(DEFAULT_CONFIGURATION_LIST)) |->
          WATCOM_PLATFORM_LIST[((k - 1) \div Len(DEFAULT_CONFIGURATION_LIST)) + 1]
            \o "|" \o
          DEFAULT_CONFIGURATION_LIST[((k - 1) % Len(DEFAULT_CONFIGURATION_LIST)) + 1]]

build_watcom_makefile(full_pathname, fatal) ==
  {returns_BuildError(BuildError(10, full_pathname, None), FALSE)}
    \cup {returns_list(run_commands(full_pathname, watcom_commands(full_pathname),
                                    errors, fatal)) :
            errors \in ErrorVectors(Len(watcom_commands(full_pathname)))}

\* build_visual_studio: error 10 for a corrupt file, 0 when the version is
\* unsupported or not installed, else one build per target of the file
build_visual_studio(full_pathname, fatal) ==
  {returns_BuildError(BuildError(10, full_pathname, None), FALSE),
   returns_BuildError(BuildError(0, full_pathname, None), FALSE)}
    \cup {returns_list(run_commands(full_pathname, SlnTargets, errors, fatal)) :
            errors \in ErrorVectors(Len(SlnTargets))}

\* build_codewarrior: error 0 when CodeWarrior cannot be used, else one
\* build per target of the file
build_codewarrior(full_pathname, fatal, host) ==
  IF host \notin {"mac", "windows"}
  THEN {returns_BuildError(BuildError(0, full_pathname, None), FALSE)}
  ELSE {returns_BuildError(BuildError(0, full_pathname, None), FALSE)}
         \cup {returns_list(run_commands(full_pathname, McpTargets, errors, fatal)) :
                 errors \in ErrorVectors(Len(McpTargets))}

\* buildxcode(file_name, verbose, ignoreerrors): "if error: if not
\* ignoreerrors: break"
buildxcode(file_name, ignoreerrors) ==
  {returns_BuildError(BuildError(0, file_name, None), FALSE)}
    \cup {returns_list(run_commands(file_name, XcodeTargets, errors, ~ignoreerrors)) :
            errors \in ErrorVectors(Len(XcodeTargets))}

\* buildcodeblocks: every path returns BuildError(0, ...)
buildcodeblocks(fullpathname) ==
  {returns_BuildError(BuildError(0, fullpathname, None), FALSE)}

\* The if/elif chain of the loop of main: what berror can be for a project
berror_of(project, a) ==
  LET fullpathname == project[1]
      projecttype == project[2]
  IN  CASE projecttype = "python" -> run_py_script(fullpathname)
        [] projecttype = "slicer" -> build_script(fullpathname)
        [] projecttype = "makerez" -> build_script(fullpathname)
        [] projecttype = "doxygen" ->
             IF a.documentation THEN build_doxygen(fullpathname) ELSE {returns_None}
        [] projecttype = "watcommakefile" -> build_watcom_makefile(fullpathname, a.fatal)
        [] projecttype = "visualstudio" ->
             IF a.host = "windows" THEN build_visual_studio(fullpathname, a.fatal)
             ELSE {returns_None}
        [] projecttype = "codewarrior" -> build_codewarrior(fullpathname, a.fatal, a.host)
        [] projecttype = "xcode" ->
             IF a.host = "mac" THEN buildxcode(fullpathname, TRUE) ELSE {returns_None}
        [] projecttype = "codeblocks" -> buildcodeblocks(fullpathname)

\* "for i in berror: if i.error: error = i.error; break"
RECURSIVE first_error(_)
first_error(results) ==
  IF results = <<>> THEN 0
  ELSE IF Head(results).error # 0 THEN Head(results).error
  ELSE first_error(Tail(results))

\* A report that looks at the last result only.
buildme_return_last(results) ==
  IF results # <<>> /\ results[Len(results)].error # 0 THEN 10 ELSE 0

\* "for item in results: if item.error: error = 10; break / else: error = 0"
buildme_return(results) ==
  IF \E i \in 1..Len(results) : results[i].error # 0 THEN 10 ELSE 0

----------------------------------------------------------------------------
(* makeprojects.watcom: the exporter Project and the rules of its "all"    *)
(* section.  A rule is the record of its target and its prerequisites.     *)

\* watcom.Project.__init__: "for item in self.configuration_names: if
\* configuration.name == item.name: break / else: append(configuration)"
RECURSIVE watcom_configuration_names(_, _)
watcom_configuration_names(configuration_list, names) ==
  IF configuration_list = <<>> THEN names
  ELSE IF \E i \in 1..Len(names) : names[i].name = Head(configuration_list).name
       THEN watcom_configuration_names(Tail(configuration_list), names)
       ELSE watcom_configuration_names(Tail(configuration_list),
                                       Append(names, Head(configuration_list)))

\* watcom.Project.__init__: "if configuration.platform not in
\* self.platforms: self.platforms.append(configuration.platform)"
RECURSIVE watcom_project_platforms(_, _)
watcom_project_platforms(configuration_list, platforms) ==
  IF configuration_list = <<>> THEN platforms
  ELSE IF InTuple(Head(configuration_list).platform, platforms)
       THEN watcom_project_platforms(Tail(configuration_list), platforms)
       ELSE watcom_project_platforms(Tail(configuration_list),
                                     Append(platforms, Head(configuration_list).platform))

\* watcom.Project(solution) for a solution of one project
watcom_Project(configuration_list) ==
  [configuration_list |-> configuration_list,
   configuration_names |-> watcom_configuration_names(configuration_list, <<>>),
   platforms |-> watcom_project_platforms(configuration_list, <<>>)]

\* PlatformTypes.get_short_code
get_short_code(platform) == Get(PLATFORMTYPES_CODES, platform)

\* write_all_target: "all: <names of configuration_names> .SYMBOLIC"
write_all_target_all(self) ==
  << [rule |-> "all",
      target |-> <<"a","l","l">>,
      prerequisites |-> [i \in 1..Len(self.configuration_names) |->
                           self.configuration_names[i].name]] >>

\* write_all_target: "for configuration in self.configuration_names", one
\* rule naming configuration.name + platform.get_short_code() for every
\* platform of self.platforms
write_all_target_configurations(self) ==
  [i \in 1..Len(self.configuration_names) |->
     [rule |-> "configuration",
      target |-> self.configuration_names[i].name,
      prerequisites |-> [j \in 1..Len(self.platforms) |->
                           self.configuration_names[i].name
                             \o get_short_code(self.platforms[j])]]]

\* write_all_target: "for platform in self.platforms", one rule naming
\* configuration.name + platform.get_short_code() for every configuration
\* of self.configuration_list
write_all_target_platforms(self) ==
  [j \in 1..Len(self.platforms) |->
     [rule |-> "platform",
      target |-> get_short_code(self.platforms[j]),
      prerequisites |-> [k \in 1..Len(self.configuration_list) |->
                           self.configuration_list[k].name
                             \o get_short_code(self.platforms[j])]]]

\* write_all_target: "for configuration in self.configuration_list", the
\* rule '{name}{short code}: .SYMBOLIC' that makes the binary
write_all_target_builds(self) ==
  [k \in 1..Len(self.configuration_list) |->
     [rule |-> "build",
      target |-> self.configuration_list[k].name
                   \o get_short_code(self.configuration_list[k].platform),
      prerequisites |-> <<>>]]

\* watcom.Project.write_all_target(line_list): the rules in the order they
\* are written.
write_all_target(self) ==
  write_all_target_all(self) \o write_all_target_configurations(self)
    \o write_all_target_platforms(self) \o write_all_target_builds(self)

----------------------------------------------------------------------------
(* makeprojects.buildme: the folders the scan for projects does not enter *)

\* The tests of recursivegetprojects on base_name that end in "continue".
recursivegetprojects_skips(base_name) ==
  LET base_name_lower == str_lower(base_name)
  IN  \/ base_name_lower = <<"t","e","m","p">>
      \/ base_name_lower = <<"b","i","n">>
      \/ base_name_lower = <<"a","p","p","f","o","l","d","e","r">>
      \/ endswith(base_name_lower, <<".","x","c","o","d","e","p","r","o","j">>)
      \/ endswith(base_name, <<"_","D","a","t","a">>)
      \/ endswith(base_name, <<" ","D","a","t","a">>)

----------------------------------------------------------------------------
(* Bounds and the arguments the calls are made with *)

\* Longest string of characters that name nothing.
MaxJunkLen == 2
\* Most toolchain versions installed on one host.
MaxInstalled == 2
\* Most configuration names handed to new_configuration.
MaxNames == 2
\* Longest generated path handed to SourceFile.
MaxPathLen == 4

JunkAlphabet == {"q", "7"}
PathAlphabet == {".", "/", "\\", "a"}
ConfigurationNames == {"Debug", "Release"}

StringsOver(alphabet, n) == UNION {[1..k -> alphabet] : k \in 0..n}

Values(table) == {table[i][2] : i \in 1..Len(table)}

TupleSet(tuple) == {tuple[i] : i \in 1..Len(tuple)}

CaseVariants(s) == {s, str_lower(s), str_upper(s)}

AllCases(strings) == UNION {CaseVariants(s) : s \in strings}

ProjectAliases == {<<"l","i","b">>, <<"g","a","m","e">>, <<"d","l","l">>}

ProjectStrings ==
  Values(ProjectTypes) \cup Values(PROJECTTYPES_READABLE) \cup ProjectAliases
    \cup TupleSet(ProjectTypes_attributes) \cup StringsOver(JunkAlphabet, MaxJunkLen)

ProjectArguments ==
  {PyMember(m) : m \in Members(ProjectTypes)}
    \cup {PyStr(s) : s \in AllCases(ProjectStrings)}

IDEAliases ==
  TupleSet(IDE_VS_ALIASES) \cup TupleSet(IDE_XCODE_ALIASES) \cup TupleSet(IDE_CW_ALIASES)

IDEStrings ==
  Values(IDETypes) \cup Values(IDETYPES_READABLE) \cup Values(IDETYPES_CODES)
    \cup IDEAliases \cup TupleSet(IDETypes_attributes)
    \cup StringsOver(JunkAlphabet, MaxJunkLen)

IDEArguments ==
  {PyMember(m) : m \in Members(IDETypes)}
    \cup {PyStr(s) : s \in AllCases(IDEStrings)}

VSNames ==
  UNION {TupleSet(PLATFORMTYPES_VS[i][2]) : i \in 1..Len(PLATFORMTYPES_VS)}

PlatformStrings ==
  Values(PlatformTypes) \cup Values(PLATFORMTYPES_READABLE)
    \cup Values(PLATFORMTYPES_CODES) \cup VSNames
    \cup TupleSet(PlatformTypes_attributes)
    \cup StringsOver(JunkAlphabet, MaxJunkLen)

PlatformArguments ==
  {PyMember(m) : m \in Members(PlatformTypes)}
    \cup {PyStr(s) : s \in AllCases(PlatformStrings)}

\* Hosts: a host has Visual Studio versions or Xcode versions or neither.
UpTo(S, n) == {T \in SUBSET S : Cardinality(T) <= n}

Hosts ==
  {[vs |-> V, xcode |-> {}, xcode_first |-> None] :
      V \in UpTo(TupleSet(vs_studio_table), MaxInstalled)}
    \cup UNION {{[vs |-> {}, xcode |-> X, xcode_first |-> f] : f \in X} :
                  X \in UpTo(xcode_table, MaxInstalled) \ {{}}}

\* lookup() asks the host only for one of the generic IDE names.
asks_host(ide_name) ==
  /\ IsStr(ide_name)
  /\ IDETypes_lookup(ide_name, NoHost) = None
  /\ \/ InTuple(ide_name[2], IDE_VS_ALIASES)
     \/ InTuple(ide_name[2], IDE_XCODE_ALIASES)

HostTypes ==
  {<<"False", "False">>}
    \cup {<<w, "False">> : w \in {"x86", "x64"}}
    \cup {<<"False", m>> : m \in {"ppc", "ppc64", "x32", "x64"}}

\* Lists of distinct configuration names.
NameArrays ==
  {names \in UNION {[1..k -> ConfigurationNames] : k \in 1..MaxNames} :
     \A i, j \in 1..Len(names) : names[i] = names[j] => i = j}

PlatformChoices ==
  {PyNone} \cup {PyMember(m) : m \in Members(PlatformTypes)}
    \cup {PyStr(s) : s \in AllCases(Values(PlatformTypes))
                          \cup StringsOver(JunkAlphabet, MaxJunkLen)
                          \cup {<<"m","a","t","c","h">>}}

ClaimedPaths ==
  { <<"a","/","b","/","c",".","c","p","p">>,
    <<".","/","x",".","c","p","p">>,
    <<".",".","/",".",".","/","y","/","z",".","h">> }

Paths == ClaimedPaths \cup StringsOver(PathAlphabet, MaxPathLen)

----------------------------------------------------------------------------
(* SolutionData and the files under its working directory *)

\* Most files and directories beneath the working directory, those in its
\* subdirectories counted too.
MaxEntries == 3

FileNames == { <<"a",".","c">>, <<"B",".","c">>, <<"b",".","h">>, <<"n",".","t">> }

\* A name that only a host whose os.sep is "/" allows: the backslash is an
\* ordinary character of a file name there.
PosixFileNames == { <<".","\\","s","r","c","\\","a",".","c">> }

\* The names the files of a subdirectory are taken from.
SubFileNames == { <<"a",".","c">>, <<"b",".","h">> }

DirNames == { <<"s","r","c">>, <<"t","e","m","p">> }

\* The files and directories beneath the working directory fs.
CountEntries(fs) ==
  LET RECURSIVE Sum(_)
      Sum(dirs) ==
        IF dirs = {} THEN 0
        ELSE LET d == CHOOSE d \in dirs : TRUE
             IN  1 + Cardinality(fs.dirs[d]) + Sum(dirs \ {d})
  IN  Cardinality(fs.files) + Sum(DOMAIN fs.dirs)

\* The working directories of a host whose os.sep is sep.
FileSystems(sep) ==
  {fs \in
     {[files |-> F, dirs |-> D] :
        F \in UpTo(FileNames \cup (IF sep = <<"/">> THEN PosixFileNames ELSE {}),
                  MaxEntries),
        D \in UNION {[N -> SUBSET SubFileNames] : N \in SUBSET DirNames}} :
     CountEntries(fs) <= MaxEntries}

Orderings(S) ==
  {p \in [1..Cardinality(S) -> S] : \A i, j \in 1..Cardinality(S) : p[i] = p[j] => i = j}

\* For each directory of dirs some order of the names in it.
RECURSIVE SubListings(_, _)
SubListings(fs, dirs) ==
  IF dirs = {} THEN {<<>>}
  ELSE LET d == CHOOSE d \in dirs : TRUE
       IN  {(<<d>> :> order) @@ rest :
              order \in Orderings(fs.dirs[d]),
              rest \in SubListings(fs, dirs \ {d})}

\* os.listdir on a file system: for the root (path <<>>) and for each
\* subdirectory (path <<name>>) some order of its entries.
Listings(fs) ==
  {(<<>> :> root) @@ sub :
     root \in Orderings(fs.files \cup DOMAIN fs.dirs),
     sub \in SubListings(fs, DOMAIN fs.dirs)}

SourceFolderLists ==
  { << <<".">> >>,
    << <<".","/","*",".","*">> >>,
    << <<"s","r","c">>, <<".">> >> }

ExcludeLists == { <<>>, << <<"A",".","C">> >>, << <<"S","R","C">> >> }

AcceptableLists == { <<"h", "cpp">>, <<"cpp">> }

OsSeps == { <<"/">>, <<"\\">> }

----------------------------------------------------------------------------
(* A run of the command line shell on one description file *)

\* Most items in the list of a description file.
MaxItems == 3
\* Most runs of the shell, one after the other, in one working directory.
MaxRuns == 2

\* The records of a description file, as the <<key, value>> pairs in the
\* order their keys are met.
DescriptionRecords ==
  { << <<"platform", "linux">> >>,
    << <<"nonsense", "1">> >>,
    << <<"projectname", "game">>, <<"nonsense", "1">> >> }

\* The names of target formats: two that core.py generates itself and one
\* it does not know.
TargetNames == {"codewarrior", "watcom", "nmake"}

DescriptionItems ==
  {<<"dict", r>> : r \in DescriptionRecords} \cup {<<"str", t>> : t \in TargetNames}

\* What the shell finds where it looks for the description file: no file,
\* text that json.loads rejects, a JSON value that is not a list, or a list.
RunInputs ==
  {[kind |-> k, myjson |-> <<>>] : k \in {"missing", "unparsable", "notalist"}}
    \cup {[kind |-> "list", myjson |-> s] :
            s \in UNION {[1..n -> DescriptionItems] : n \in 0..MaxItems}}

\* The exit codes of the CodeWarrior IDE.
IdeExitCodes == {0, 1}

\* The working directory of the runs and the order the host lists it in.
RunDirectory ==
  [files |-> { <<"a",".","c">>, <<"b",".","h">>, <<"c",".","h","p","p">> }, dirs |-> <<>>]
RunListing == (<<>> :> << <<"b",".","h">>, <<"a",".","c">>, <<"c",".","h","p","p">> >>)

\* The host as the generators of the run see it.
RunHost ==
  [workingDir |-> self_workingDir,
   ossep |-> os_sep,
   listdir |-> os_listdir,
   CWFolder |-> os_environ.CWFolder]

NoRun ==
  /\ run_pc = "none"
  /\ run_input = [kind |-> "missing", myjson |-> <<>>]
  /\ item_index = 0
  /\ run_solution = SolutionData
  /\ error = 0
  /\ exit_code = None
  /\ processed = {}
  /\ runs = 0
  /\ disk = <<>>
  /\ writes = <<>>
  /\ os_environ = [CWFolder |-> None]
  /\ disk_before = <<>>

----------------------------------------------------------------------------
(* The solutions handed to the generators of codewarrior.py and watcom.py *)

\* Most calls of generate() on one solution.
MaxEmits == 2

\* The IDEs asked for: for each generator one it supports, and one that
\* neither supports.
EmitIDEs == {"codewarrior50", "codewarrior59", "watcom", "vs2019"}

\* The platforms of the configurations.
EmitPlatforms == {"win32", "linux"}

\* The configurations of the project: Debug alone, or Debug and Release.
EmitConfigurationNames == { <<"Debug">>, <<"Debug", "Release">> }

\* The library folders a configuration declares.
EmitLibraryFolders == { <<>>, <<"libs">> }

\* A Solution of one project as the loader of a description builds it.
EmitSolution(ide, platform, declared, names, is_library, folders) ==
  [name |-> <<"g">>,
   ide |-> ide,
   ide_code |-> Get(IDETYPES_CODES, ide),
   platform_code |-> Get(PLATFORMTYPES_CODES, platform),
   codewarrior_filename |-> None,
   watcom_filename |-> None,
   project |->
     [platform |-> IF declared THEN platform ELSE None,
      configuration_list |->
        [i \in 1..Len(names) |->
           [name |-> names[i],
            platform |-> platform,
            debug |-> names[i] = "Debug",
            is_library |-> is_library,
            library_folders_list |-> folders,
            libraries_list |-> <<>>,
            cw_name |-> None]]]]

EmitSolutions ==
  {EmitSolution(ide, platform, declared, names, is_library, folders) :
     ide \in EmitIDEs, platform \in EmitPlatforms,
     declared \in BOOLEAN, names \in EmitConfigurationNames,
     is_library \in BOOLEAN, folders \in EmitLibraryFolders}

NoEmit ==
  /\ emit_solution = None
  /\ emit_before = None
  /\ emit_result = None
  /\ emitter = None
  /\ emits = 0
  /\ emit_disk = <<>>
  /\ emit_writes = <<>>
  /\ emit_environ = [CWFolder |-> None]

\* The attributes asked for with get_chained_value and the values they are
\* set to; None is an attribute that is not set.
ChainedAttributes == {"profile", "deploy_folder"}
ChainedValues == {None, "a", "b"}

\* A project of two sibling configurations, each knowing its project.
ChainedProjects ==
  [profile : ChainedValues, deploy_folder : ChainedValues]
ChainedConfigurations(project) ==
  [name : {"Debug"}, project : {project}, profile : ChainedValues,
   deploy_folder : ChainedValues]

----------------------------------------------------------------------------
(* The files added to the groups of a CodeWarrior project *)

\* Most calls of addtogroups on one project.
MaxInsertions == 3

\* The relative path names of the files, split at the slashes.
GroupParts ==
  { << <<"a",".","c">> >>,
    << <<"B",".","h">> >>,
    << <<".">>, <<"a",".","c">> >>,
    << <<".",".">>, <<"s","r","c">>, <<"a",".","c">> >>,
    << <<"s","r","c">>, <<"a",".","c">> >>,
    << <<"s","r","c">>, <<"B",".","h">> >>,
    << <<"Z","l","i","b">>, <<"a",".","c">> >>,
    << <<"s","r","c">>, <<"x">>, <<"a",".","c">> >> }

NoGroups ==
  /\ cw_pc = "none"
  /\ cw_group = <<>>
  /\ cw_added = <<>>
  /\ cw_lines = <<>>

\* buildme has not been started.
NoBuild ==
  /\ build_pc = "none"
  /\ build_args = None
  /\ build_projects = <<>>
  /\ build_index = 0
  /\ build_results = <<>>
  /\ build_calls = <<>>
  /\ build_error = 0
  /\ build_return = None

\* Most configurations of the project a Watcom makefile is written for.
MaxConfigurations == 3

\* The configurations of that project: a name on a platform.
WatcomConfigurations ==
  [name : { <<"D","e","b","u","g">>, <<"R","e","l","e","a","s","e">> },
   platform : {"win32", "msdos4gw"}]

\* The lists of configurations without a configuration listed twice.
WatcomConfigurationLists ==
  {list \in UNION {[1..n -> WatcomConfigurations] : n \in 1..MaxConfigurations} :
     \A i, j \in 1..Len(list) : list[i] = list[j] => i = j}

\* Most entries of the IDE list and of the platform list of the command line.
MaxSelected == 2

\* The hosts fixup_ide_platform is run on.
FixupEnvironments ==
  {[windows |-> t[1], mac |-> t[2], host |-> h, codeblocks |-> c, watcom |-> w] :
     t \in {<<"False", "False">>, <<"x64", "False">>, <<"False", "x64">>},
     h \in {NoHost, [vs |-> {"vs2017"}, xcode |-> {}, xcode_first |-> None],
            [vs |-> {}, xcode |-> {"xcode9"}, xcode_first |-> "xcode9"]},
     c \in BOOLEAN, w \in BOOLEAN}

FixupIDEs == {"vs2019", "codeblocks"}

FixupPlatforms == {"xbox360", "ps3", "ps4", "vita", "shield", "wiiu", "linux"}

FixupLists(S) == UNION {[1..n -> S] : n \in 0..MaxSelected}

----------------------------------------------------------------------------
(* The calls.  Each is made from the idle state and leaves its arguments   *)
(* and its outcome in the state.                                           *)

NoCalls ==
  /\ op = "idle"
  /\ args = <<>>
  /\ result = None

NoSolution ==
  /\ pc = "none"
  /\ self_workingDir = [files |-> {}, dirs |-> <<>>]
  /\ os_sep = <<"/">>
  /\ self_sourcefolders = <<>>
  /\ self_exclude = <<>>
  /\ self_codefiles = <<>>
  /\ os_listdir = <<>>
  /\ asked_types = <<>>
  /\ filelist = <<>>

Init == NoCalls /\ NoSolution /\ NoRun /\ NoEmit /\ NoGroups /\ NoBuild

\* a.match(b)
Match ==
  /\ op = "idle"
  /\ UNCHANGED <<filevars, genvars, emitvars, groupvars, buildvars>>
  /\ \E a \in Members(PlatformTypes), b \in Members(PlatformTypes) :
       /\ op' = "match"
       /\ args' = <<a, b>>
       /\ result' = PlatformTypes_match(a, b)

\* ProjectTypes.lookup(v)
LookupProject ==
  /\ op = "idle"
  /\ UNCHANGED <<filevars, genvars, emitvars, groupvars, buildvars>>
  /\ \E v \in ProjectArguments :
       /\ op' = "ProjectTypes.lookup"
       /\ args' = <<v>>
       /\ result' = ProjectTypes_lookup(v)

\* IDETypes.lookup(v) on some host
LookupIDE ==
  /\ op = "idle"
  /\ UNCHANGED <<filevars, genvars, emitvars, groupvars, buildvars>>
  /\ \E v \in IDEArguments :
       /\ op' = "IDETypes.lookup"
       /\ IF asks_host(v)
          THEN \E host \in Hosts :
                 /\ args' = <<v, host>>
                 /\ result' = IDETypes_lookup(v, host)
          ELSE /\ args' = <<v, NoHost>>
               /\ result' = IDETypes_lookup(v, NoHost)

\* PlatformTypes.lookup(v)
LookupPlatform ==
  /\ op = "idle"
  /\ UNCHANGED <<filevars, genvars, emitvars, groupvars, buildvars>>
  /\ \E v \in PlatformArguments :
       /\ op' = "PlatformTypes.lookup"
       /\ args' = <<v>>
       /\ result' = PlatformTypes_lookup(v)

\* PlatformTypes.default() on some host
Default ==
  /\ op = "idle"
  /\ UNCHANGED <<filevars, genvars, emitvars, groupvars, buildvars>>
  /\ \E h \in HostTypes :
       /\ op' = "PlatformTypes.default"
       /\ args' = h
       /\ result' = PlatformTypes_default(h[1], h[2])

\* new_configuration(name, platform, project_type)
NewConfiguration ==
  /\ op = "idle"
  /\ UNCHANGED <<filevars, genvars, emitvars, groupvars, buildvars>>
  /\ \E names \in NameArrays, platform \in PlatformChoices :
       /\ op' = "new_configuration"
       /\ args' = <<names, platform>>
       /\ result' = new_configuration(names, platform, None)

\* SourceFile(path, ...).extractgroupname(), for either SourceFile class
ExtractGroupName ==
  /\ op = "idle"
  /\ UNCHANGED <<filevars, genvars, emitvars, groupvars, buildvars>>
  /\ \E path \in Paths :
       \/ /\ op' = "extractgroupname"
          /\ args' = <<path>>
          /\ result' = extractgroupname(convert_to_windows_slashes(path))
       \/ /\ op' = "core.extractgroupname"
          /\ args' = <<path>>
          /\ result' = core_extractgroupname(convert_to_windows_slashes(path))

\* first.get_chained_value(name) and second.get_chained_value(name) for two
\* configurations of one project
GetChainedValue ==
  /\ op = "idle"
  /\ UNCHANGED <<filevars, genvars, emitvars, groupvars, buildvars>>
  /\ \E project \in ChainedProjects, name \in ChainedAttributes :
     \E first \in ChainedConfigurations(project), second \in ChainedConfigurations(project) :
       /\ op' = "get_chained_value"
       /\ args' = <<first, second, name>>
       /\ result' = <<get_chained_value(first, name), get_chained_value(second, name)>>

\* watcom.Project(solution).write_all_target(line_list)
WriteAllTarget ==
  /\ op = "idle"
  /\ UNCHANGED <<filevars, genvars, emitvars, groupvars, buildvars>>
  /\ \E configuration_list \in WatcomConfigurationLists :
       /\ op' = "write_all_target"
       /\ args' = <<configuration_list>>
       /\ result' = write_all_target(watcom_Project(configuration_list))

\* fixup_ide_platform(ide_list, platform_list) on some host
FixupIdePlatform ==
  /\ op = "idle"
  /\ UNCHANGED <<filevars, genvars, emitvars, groupvars, buildvars>>
  /\ \E ide_list \in FixupLists(FixupIDEs), platform_list \in FixupLists(FixupPlatforms),
        env \in FixupEnvironments :
       /\ op' = "fixup_ide_platform"
       /\ args' = <<ide_list, platform_list, env>>
       /\ result' = fixup_ide_platform(ide_list, platform_list, env)

\* get_installed_xcode() on some host
GetInstalledXcode ==
  /\ op = "idle"
  /\ UNCHANGED <<filevars, genvars, emitvars, groupvars, buildvars>>
  /\ \E host \in Hosts :
       /\ op' = "get_installed_xcode"
       /\ args' = <<host>>
       /\ result' = get_installed_xcode(host)

----------------------------------------------------------------------------
(* SolutionData: construction, loading of a description record, and the    *)
(* resolution of the file list that every generator starts with.           *)

\* SolutionData() in some working directory on some host.
InitFiles ==
  /\ NoCalls
  /\ pc = "constructed"
  /\ os_sep \in OsSeps
  /\ self_workingDir \in FileSystems(os_sep)
  /\ self_sourcefolders = << <<".">> >>
  /\ self_exclude = <<>>
  /\ self_codefiles = <<>>
  /\ os_listdir = <<>>
  /\ asked_types = <<>>
  /\ filelist = <<>>
  /\ NoRun
  /\ NoEmit
  /\ NoGroups
  /\ NoBuild

\* processjson() of a record with the keys 'sourcefolders' and 'exclude'.
ProcessJson ==
  /\ pc = "constructed"
  /\ \E folders \in SourceFolderLists, excl \in ExcludeLists :
       /\ self_sourcefolders' = folders
       /\ self_exclude' = excl
  /\ pc' = "loaded"
  /\ UNCHANGED <<self_workingDir, os_sep, self_codefiles, os_listdir, asked_types, filelist>>
  /\ UNCHANGED <<callvars, genvars, emitvars, groupvars, buildvars>>

\* getfilelist(asked_types), the host listing each directory in some order.
GetFileList ==
  /\ pc \in {"constructed", "loaded"}
  /\ \E types \in AcceptableLists, listing \in Listings(self_workingDir) :
       /\ asked_types' = types
       /\ os_listdir' = listing
       /\ filelist' = getfilelist([workingDir |-> self_workingDir,
                                    ossep |-> os_sep,
                                    sourcefolders |-> self_sourcefolders,
                                    exclude |-> self_exclude,
                                    codefiles |-> self_codefiles,
                                    listdir |-> listing], types)
  /\ pc' = "listed"
  /\ UNCHANGED <<self_workingDir, os_sep, self_sourcefolders, self_exclude,
                 self_codefiles>>
  /\ UNCHANGED <<callvars, genvars, emitvars, groupvars, buildvars>>

NextFiles ==
  \/ ProcessJson
  \/ GetFileList

SpecFiles == InitFiles /\ [][NextFiles]_vars

----------------------------------------------------------------------------
(* The command line shell *)

\* The shell is started in a working directory that holds a.c, b.h and c.hpp.
InitRun ==
  /\ NoCalls
  /\ pc = "constructed"
  /\ self_workingDir = RunDirectory
  /\ os_sep = <<"\\">>
  /\ self_sourcefolders = << <<".">> >>
  /\ self_exclude = <<>>
  /\ self_codefiles = <<>>
  /\ os_listdir = RunListing
  /\ asked_types = <<>>
  /\ filelist = <<>>
  /\ run_pc = "start"
  /\ run_input \in RunInputs
  /\ item_index = 0
  /\ run_solution = SolutionData
  /\ error = 0
  /\ exit_code = None
  /\ processed = {}
  /\ runs = 1
  /\ disk = <<>>
  /\ writes = <<>>
  /\ os_environ \in {[CWFolder |-> None], [CWFolder |-> "C:\\CodeWarrior"]}
  /\ disk_before = <<>>
  /\ NoEmit
  /\ NoGroups
  /\ NoBuild

\* run() up to the call of solution.process(myjson): a file that is not
\* found or not parsed returns 2, a value that is not a list sets error 2.
Run ==
  /\ run_pc = "start"
  /\ IF run_input.kind = "list"
     THEN /\ run_pc' = "process"
          /\ item_index' = 1
          /\ UNCHANGED exit_code
     ELSE /\ run_pc' = "returned"
          /\ exit_code' = 2
          /\ UNCHANGED item_index
  /\ UNCHANGED <<run_input, run_solution, error, processed, runs, disk, writes,
                 os_environ, disk_before>>
  /\ UNCHANGED <<callvars, filevars, emitvars, groupvars, buildvars>>

\* The item that the loop of process() is at.
CurrentItem == run_input.myjson[item_index]

InLoop ==
  /\ run_pc = "process"
  /\ error = 0
  /\ item_index <= Len(run_input.myjson)

\* process(): "if type(item) is dict: error = self.processjson(item)"
ProcessRecord ==
  /\ InLoop
  /\ CurrentItem[1] = "dict"
  /\ \E done \in {processjson(run_solution, CurrentItem[2])} :
         /\ error' = done.error
         /\ run_solution' = done.self
  /\ processed' = processed \cup {item_index}
  /\ item_index' = item_index + 1
  /\ UNCHANGED <<run_pc, run_input, exit_code, runs, disk, writes, os_environ,
                 disk_before>>
  /\ UNCHANGED <<callvars, filevars, emitvars, groupvars, buildvars>>

\* process(): "elif item=='codewarrior'".  A platform without a code for
\* CodeWarrior makes the file name raise TypeError, which nothing catches:
\* the interpreter ends with status 1.  With CWFolder set and the platform
\* windows the IDE is run on the .mcp.xml file; its exit code is the error,
\* and when it is 0 the IDE has made the .mcp file and the .mcp.xml file is
\* removed.
ProcessCodewarrior ==
  /\ InLoop
  /\ CurrentItem[1] = "str"
  /\ CurrentItem[2] = "codewarrior"
  /\ \E self \in {[run_solution EXCEPT !.ide = "codewarrior"]} :
     \E made \in {createcodewarriorsolution(self, RunHost)} :
     \E saved \in {written(disk, made.projectpathname, made.text)} :
         /\ run_solution' = self
         /\ IF projectfilename_raises(self)
            THEN /\ run_pc' = "raised"
                 /\ exit_code' = 1
                 /\ UNCHANGED <<error, disk, writes>>
            ELSE /\ UNCHANGED <<run_pc, exit_code>>
                 /\ IF made.converts
                    THEN \E status \in IdeExitCodes :
                           /\ error' = status
                           /\ IF status = 0
                              THEN /\ disk' = removed(
                                        written(saved, made.mcp, ide_converted(made.text)),
                                        made.projectpathname)
                                   /\ writes' = writes \o <<made.projectpathname, made.mcp>>
                              ELSE /\ disk' = saved
                                   /\ writes' = Append(writes, made.projectpathname)
                    ELSE /\ error' = 0
                         /\ disk' = saved
                         /\ writes' = Append(writes, made.projectpathname)
  /\ processed' = processed \cup {item_index}
  /\ item_index' = item_index + 1
  /\ UNCHANGED <<run_input, runs, os_environ, disk_before>>
  /\ UNCHANGED <<callvars, filevars, emitvars, groupvars, buildvars>>

\* process(): "elif item=='watcom'"
ProcessWatcom ==
  /\ InLoop
  /\ CurrentItem[1] = "str"
  /\ CurrentItem[2] = "watcom"
  /\ \E self \in {[run_solution EXCEPT !.ide = "watcom"]} :
     \E made \in {createwatcomsolution(self, RunHost)} :
         /\ run_solution' = self
         /\ IF projectfilename_raises(self)
            THEN /\ run_pc' = "raised"
                 /\ exit_code' = 1
                 /\ UNCHANGED <<error, disk, writes>>
            ELSE /\ UNCHANGED <<run_pc, exit_code>>
                 /\ error' = made.error
                 /\ disk' = written(disk, made.projectpathname, made.text)
                 /\ writes' = Append(writes, made.projectpathname)
  /\ processed' = processed \cup {item_index}
  /\ item_index' = item_index + 1
  /\ UNCHANGED <<run_input, runs, os_environ, disk_before>>
  /\ UNCHANGED <<callvars, filevars, emitvars, groupvars, buildvars>>

\* The names process() has a branch for; those of visualstudio, xcode and
\* codeblocks go to generators outside core.py and are not in the lists
\* modelled.
ImplementedTargets ==
  {"vs2015", "vs2013", "vs2012", "vs2010", "vs2008", "vs2005", "xcode3",
   "xcode4", "xcode5", "codewarrior", "codeblocks", "watcom"}

\* process(): "else: print 'Saving ' + item + ' not implemented yet'"
ProcessNotImplemented ==
  /\ InLoop
  /\ CurrentItem[1] = "str"
  /\ CurrentItem[2] \notin ImplementedTargets
  /\ error' = 0
  /\ processed' = processed \cup {item_index}
  /\ item_index' = item_index + 1
  /\ UNCHANGED <<run_pc, run_input, run_solution, exit_code, runs, disk, writes,
                 os_environ, disk_before>>
  /\ UNCHANGED <<callvars, filevars, emitvars, groupvars, buildvars>>

\* process() leaves its loop, at the end of the list or by "break", and
\* run() returns its error.
ProcessReturn ==
  /\ run_pc = "process"
  /\ error # 0 \/ item_index > Len(run_input.myjson)
  /\ run_pc' = "returned"
  /\ exit_code' = error
  /\ UNCHANGED <<run_input, item_index, run_solution, error, processed, runs, disk,
                 writes, os_environ, disk_before>>
  /\ UNCHANGED <<callvars, filevars, emitvars, groupvars, buildvars>>

\* The shell is started again on the same description file in the same
\* working directory, which now holds what the run before left there.
RunAgain ==
  /\ run_pc \in {"returned", "raised"}
  /\ runs < MaxRuns
  /\ runs' = runs + 1
  /\ run_pc' = "start"
  /\ item_index' = 0
  /\ run_solution' = SolutionData
  /\ error' = 0
  /\ exit_code' = None
  /\ processed' = {}
  /\ writes' = <<>>
  /\ disk_before' = disk
  /\ UNCHANGED <<run_input, disk, os_environ>>
  /\ UNCHANGED <<callvars, filevars, emitvars, groupvars, buildvars>>

NextRun ==
  \/ Run
  \/ ProcessRecord
  \/ ProcessCodewarrior
  \/ ProcessWatcom
  \/ ProcessNotImplemented
  \/ ProcessReturn
  \/ RunAgain

SpecRun == InitRun /\ [][NextRun]_vars

----------------------------------------------------------------------------
(* The generators of codewarrior.py and watcom.py *)

InitEmit ==
  /\ NoCalls
  /\ NoSolution
  /\ NoRun
  /\ NoGroups
  /\ NoBuild
  /\ emit_solution \in EmitSolutions
  /\ emit_before = emit_solution
  /\ emit_result = None
  /\ emitter = None
  /\ emits = 0
  /\ emit_disk = <<>>
  /\ emit_writes = <<>>
  /\ emit_environ \in {[CWFolder |-> None], [CWFolder |-> "C:\\CodeWarrior"]}

\* codewarrior.generate(solution).  What save_text_file_if_newer returns is
\* not fixed by this repository: it is either true or false.  When it is
\* false, CWFolder is set and the IDE is codewarrior50, the IDE is run on
\* the .mcp.xml file and its exit code is returned; an IDE that ends with 0
\* has made the .mcp file.
GenerateCodewarrior ==
  /\ emits < MaxEmits
  /\ emits' = emits + 1
  /\ emitter' = "codewarrior"
  /\ emit_before' = emit_solution
  /\ IF emit_solution.ide \notin CODEWARRIOR_SUPPORTED_IDES
     THEN /\ emit_result' = 10
          /\ emit_writes' = <<>>
          /\ UNCHANGED <<emit_solution, emit_disk>>
     ELSE \E named \in {[emit_solution EXCEPT
                           !.codewarrior_filename = codewarrior_filename(emit_solution)]} :
          \E exported \in {codewarrior_Project(named)} :
          \E lines \in {codewarrior_lines(exported)} :
          \E xml_filename \in {exported.codewarrior_filename \o <<".","x","m","l">>} :
          \E saved \in {save_text_file_if_newer(emit_disk, xml_filename, lines)} :
          \E xml_writes \in {IF is_newer(emit_disk, xml_filename, lines)
                             THEN <<xml_filename>> ELSE <<>>} :
          \E returned \in BOOLEAN :
            /\ emit_solution' = exported
            /\ IF ~returned /\ emit_environ.CWFolder # None
                  /\ exported.ide \in {"codewarrior50"}
               THEN \E status \in IdeExitCodes :
                      /\ emit_result' = status
                      /\ IF status = 0
                         THEN /\ emit_disk' = written(saved, exported.codewarrior_filename,
                                                      ide_converted(lines))
                              /\ emit_writes' = Append(xml_writes,
                                                       exported.codewarrior_filename)
                         ELSE /\ emit_disk' = saved
                              /\ emit_writes' = xml_writes
               ELSE /\ emit_result' = 0
                    /\ emit_disk' = saved
                    /\ emit_writes' = xml_writes
  /\ UNCHANGED emit_environ
  /\ UNCHANGED <<callvars, filevars, genvars, groupvars, buildvars>>

\* watcom.generate(solution)
GenerateWatcom ==
  /\ emits < MaxEmits
  /\ emits' = emits + 1
  /\ emitter' = "watcom"
  /\ emit_before' = emit_solution
  /\ IF emit_solution.ide \notin WATCOM_SUPPORTED_IDES
     THEN /\ emit_result' = 10
          /\ emit_writes' = <<>>
          /\ UNCHANGED <<emit_solution, emit_disk>>
     ELSE \E named \in {[emit_solution EXCEPT
                           !.watcom_filename = watcom_filename(emit_solution)]} :
          \E lines \in {watcom_lines(named)} :
            /\ emit_solution' = named
            /\ emit_result' = 0
            /\ emit_disk' = save_text_file_if_newer(emit_disk, named.watcom_filename, lines)
            /\ emit_writes' = IF is_newer(emit_disk, named.watcom_filename, lines)
                              THEN <<named.watcom_filename>> ELSE <<>>
  /\ UNCHANGED emit_environ
  /\ UNCHANGED <<callvars, filevars, genvars, groupvars, buildvars>>

NextEmit ==
  \/ GenerateCodewarrior
  \/ GenerateWatcom

SpecEmit == InitEmit /\ [][NextEmit]_vars

----------------------------------------------------------------------------
(* The file groups of a CodeWarrior project *)

\* Project.__init__: "self.group = GROUP(None)"
InitGroups ==
  /\ NoCalls
  /\ NoSolution
  /\ NoRun
  /\ NoEmit
  /\ NoBuild
  /\ cw_pc = "building"
  /\ cw_group = (<<>> :> GROUP)
  /\ cw_added = <<>>
  /\ cw_lines = <<>>

\* self.addtogroups(platform, configuration, parts)
AddToGroups ==
  /\ cw_pc = "building"
  /\ Len(cw_added) < MaxInsertions
  /\ \E parts \in GroupParts :
       /\ cw_group' = addtogroups(cw_group, parts)
       /\ cw_added' = Append(cw_added, parts)
  /\ UNCHANGED <<cw_pc, cw_lines>>
  /\ UNCHANGED <<callvars, filevars, genvars, emitvars, buildvars>>

\* Project.generate: "self.group.generate(line_list, 1)"
GenerateGroups ==
  /\ cw_pc = "building"
  /\ cw_pc' = "generated"
  /\ cw_lines' = GROUP_generate(cw_group, <<>>, None)
  /\ UNCHANGED <<cw_group, cw_added>>
  /\ UNCHANGED <<callvars, filevars, genvars, emitvars, buildvars>>

NextGroups ==
  \/ AddToGroups
  \/ GenerateGroups

SpecGroups == InitGroups /\ [][NextGroups]_vars

----------------------------------------------------------------------------
(* buildme.main: the collection of the project files, the loop over them   *)
(* and the report.                                                         *)

InitBuild ==
  /\ NoCalls
  /\ NoSolution
  /\ NoRun
  /\ NoEmit
  /\ NoGroups
  /\ build_pc = "start"
  /\ build_args \in BuildArgs
  /\ build_projects = <<>>
  /\ build_index = 0
  /\ build_results = <<>>
  /\ build_calls = <<>>
  /\ build_error = 0
  /\ build_return = None

\* main() up to the loop: the named files or the files of the directory,
\* "Nothing to build", and the sort by priority.
BuildmeCollect ==
  /\ build_pc = "start"
  /\ UNCHANGED <<callvars, filevars, genvars, emitvars, groupvars>>
  /\ UNCHANGED <<build_args, build_results, build_calls, build_error>>
  /\ \E named \in {addprojects_named(<<>>, IF build_args.named THEN build_args.files
                                            ELSE <<>>)} :
       IF ~named.returned
       THEN /\ build_pc' = "done"
            /\ build_return' = 10
            /\ UNCHANGED <<build_projects, build_index>>
       ELSE \E projects \in {IF named.projects = <<>>
                              THEN getprojects(<<>>, build_args.files)
                              ELSE named.projects} :
              IF projects = <<>>
              THEN /\ build_pc' = "done"
                   /\ build_return' = 0
                   /\ UNCHANGED <<build_projects, build_index>>
              ELSE /\ build_pc' = "loop"
                   /\ build_projects' = sorted_by_priority(projects, <<>>)
                   /\ build_index' = 1
                   /\ UNCHANGED build_return

\* One pass of "for project in projects": the builder of the project's
\* kind, the results it adds, and "if error and args.fatal: break".
BuildmeProject ==
  /\ build_pc = "loop"
  /\ UNCHANGED <<callvars, filevars, genvars, emitvars, groupvars>>
  /\ UNCHANGED <<build_args, build_projects, build_return>>
  /\ \E berror \in berror_of(build_projects[build_index], build_args) :
       /\ build_results' = build_results \o berror.items
       /\ build_calls' = build_calls \o (IF berror.ran THEN berror.items ELSE <<>>)
       /\ build_error' = first_error(berror.items)
       /\ IF build_error' # 0 /\ build_args.fatal
          THEN /\ build_pc' = "report"
               /\ UNCHANGED build_index
          ELSE IF build_index = Len(build_projects)
          THEN /\ build_pc' = "report"
               /\ UNCHANGED build_index
          ELSE /\ build_pc' = "loop"
               /\ build_index' = build_index + 1

\* main() after the loop: the value returned
BuildmeReport ==
  /\ build_pc = "report"
  /\ UNCHANGED <<callvars, filevars, genvars, emitvars, groupvars>>
  /\ UNCHANGED <<build_args, build_projects, build_index, build_results,
                 build_calls, build_error>>
  /\ build_pc' = "done"
  /\ build_return' = buildme_return(build_results)

NextBuild ==
  \/ BuildmeCollect
  \/ BuildmeProject
  \/ BuildmeReport

SpecBuild == InitBuild /\ [][NextBuild]_vars

----------------------------------------------------------------------------
Next ==
  \/ Match
  \/ LookupProject
  \/ LookupIDE
  \/ LookupPlatform
  \/ Default
  \/ NewConfiguration
  \/ ExtractGroupName
  \/ GetChainedValue
  \/ WriteAllTarget
  \/ FixupIdePlatform
  \/ GetInstalledXcode

Spec == Init /\ [][Next]_vars

----------------------------------------------------------------------------
\* C1: for every pair of platforms a and b, a.match(b) equals b.match(a).
MatchSymmetric ==
  op = "match" => result = PlatformTypes_match(args[2], args[1])

\* A family was matched against one of its members, from the member's side.
MatchSymmetricWitness ==
  /\ op = "match"
  /\ args = <<"win64", "windows">>
  /\ result = TRUE

----------------------------------------------------------------------------
\* C2: for every expandable (family) platform F, F.match(m) is true for
\* every member m of F.get_expanded(), and F.match(X) is false for every
\* platform X that is neither F itself nor a member of F.get_expanded().
FamilyMatchesExactlyItsMembers ==
  (op = "match" /\ is_expandable(args[1]))
    => result = (args[2] = args[1] \/ args[2] \in TupleSet(get_expanded(args[1])))

----------------------------------------------------------------------------
IsLookup == op \in {"ProjectTypes.lookup", "IDETypes.lookup", "PlatformTypes.lookup"}

\* C3: for each of ProjectTypes, IDETypes and PlatformTypes, lookup(m)
\* called with any member m of that enumeration returns m itself.
LookupReturnsMemberUnchanged ==
  (IsLookup /\ IsMember(args[1])) => result = args[1][2]

\* The lookup that was called, applied to another argument on the same host.
SameLookup(v) ==
  CASE op = "ProjectTypes.lookup" -> ProjectTypes_lookup(v)
    [] op = "IDETypes.lookup" -> IDETypes_lookup(v, args[2])
    [] op = "PlatformTypes.lookup" -> PlatformTypes_lookup(v)

\* C4: lookup matches names case-insensitively: every upper/lower-case
\* variant of a string that lookup resolves to a member is resolved to
\* that same member.
LookupIsCaseInsensitive ==
  (IsLookup /\ IsStr(args[1]) /\ result \notin {None, KeyError})
    => \A v \in CaseVariants(args[1][2]) : SameLookup(PyStr(v)) = result

\* The strings an enumeration knows: member names, display strings, short
\* codes and aliases.
KnownStrings ==
  CASE op = "ProjectTypes.lookup" ->
         Values(ProjectTypes) \cup Values(PROJECTTYPES_READABLE) \cup ProjectAliases
    [] op = "IDETypes.lookup" ->
         Values(IDETypes) \cup Values(IDETYPES_READABLE) \cup Values(IDETYPES_CODES)
           \cup IDEAliases
    [] op = "PlatformTypes.lookup" ->
         Values(PlatformTypes) \cup Values(PLATFORMTYPES_READABLE)
           \cup Values(PLATFORMTYPES_CODES) \cup VSNames

\* C5: lookup called with any string that matches no member name, display
\* string, short code or alias returns None and never raises.
LookupOfUnknownIsNone ==
  (IsLookup /\ IsStr(args[1])
     /\ \A known \in KnownStrings : str_lower(known) # str_lower(args[1][2]))
    => result = None

\* C6: lookup inverts the short-code and display-string tables: for every
\* member m of IDETypes and of PlatformTypes, lookup(m.get_short_code())
\* returns m and lookup(str(m)) returns m.
LookupInvertsTables ==
  /\ (op = "IDETypes.lookup" /\ IsStr(args[1]))
       => \A m \in Members(IDETypes) :
            (args[1][2] \in {Get(IDETYPES_CODES, m), Get(IDETYPES_READABLE, m)})
              => result = m
  /\ (op = "PlatformTypes.lookup" /\ IsStr(args[1]))
       => \A m \in Members(PlatformTypes) :
            (args[1][2] \in {Get(PLATFORMTYPES_CODES, m), Get(PLATFORMTYPES_READABLE, m)})
              => result = m

\* A short code that is not a member name was looked up and gave its member.
LookupInvertsTablesWitness ==
  /\ op = "PlatformTypes.lookup"
  /\ IsStr(args[1])
  /\ args[1][2] = <<"o","s","x","x","6","4">>
  /\ result = "macosxintel64"

\* C7: creating configurations for an expandable platform yields, for each
\* configuration name, exactly one configuration per member of the
\* platform's expansion, each carrying a non-expandable platform, whether
\* the platform is supplied as a name string or as an enumeration member.
ExpandablePlatformIsExpanded ==
  op = "new_configuration" =>
    \A F \in Members(PLATFORMTYPES_EXPANDED) :
      (args[2] = PyMember(F) \/ args[2] = PyStr(Get(PlatformTypes, F))) =>
        /\ result.raises = None
        /\ Len(result.results) = Len(args[1]) * Len(get_expanded(F))
        /\ \A k \in 1..Len(args[1]) : \A m \in TupleSet(get_expanded(F)) :
             Cardinality({i \in 1..Len(result.results) :
                            /\ result.results[i].name = args[1][k]
                            /\ result.results[i].platform = m}) = 1
        /\ \A i \in 1..Len(result.results) :
             /\ result.results[i].platform # None
             /\ ~is_expandable(result.results[i].platform)

\* C8: PlatformTypes.default() returns a platform of the executing host: a
\* Windows platform on a Windows host, a macOS platform on a macOS host,
\* and linux on any other host.
DefaultIsHostPlatform ==
  op = "PlatformTypes.default" =>
    /\ args[1] # "False" => is_windows(result)
    /\ (args[1] = "False" /\ args[2] # "False") => is_macosx(result)
    /\ (args[1] = "False" /\ args[2] = "False") => result = "linux"

\* C9: the group name of a/b/c.cpp is a/b, of ./x.cpp the empty string and
\* of ../../y/z.h it is y, whichever slash the result is written with.
GroupNameExamples ==
  op \in {"extractgroupname", "core.extractgroupname"} =>
    /\ args[1] = <<"a","/","b","/","c",".","c","p","p">>
         => convert_to_linux_slashes(result) = <<"a","/","b">>
    /\ args[1] = <<".","/","x",".","c","p","p">> => result = <<>>
    /\ args[1] = <<".",".","/",".",".","/","y","/","z",".","h">> => result = <<"y">>

----------------------------------------------------------------------------
\* The file names of the list returned, in order.
ListedNames == [i \in 1..Len(filelist[1]) |-> filelist[1][i].filename]

\* C10 as stated: the list returned by file-list resolution is sorted
\* case-insensitively: of any two adjacent entries, the lower-cased path of
\* the first is not greater than the lower-cased path of the second.
FileListSortedIgnoringCase ==
  pc = "listed" =>
    \A i \in 1..(Len(ListedNames) - 1) :
      cmp(str_lower(ListedNames[i]), str_lower(ListedNames[i + 1])) <= 0

\* C10 as amended: the list returned by file-list resolution is sorted by
\* the code points of the normalized path, upper case before lower case:
\* of any two adjacent entries the path of the first is not greater than
\* the path of the second.
FileListSortedByCodePoint ==
  pc = "listed" =>
    \A i \in 1..(Len(ListedNames) - 1) :
      cmp(ListedNames[i], ListedNames[i + 1]) <= 0

\* The host listed a.c before B.c and the list returned has B.c first.
FileListSortedWitness ==
  /\ pc = "listed"
  /\ os_listdir[<<>>] = << <<"a",".","c">>, <<"B",".","c">> >>
  /\ ListedNames = << <<"B",".","c">>, <<"a",".","c">> >>

----------------------------------------------------------------------------
\* The solution as getfilelist received it, the host listing its
\* directories in the order listing.
SelfListedAs(listing) ==
  [workingDir |-> self_workingDir,
   ossep |-> os_sep,
   sourcefolders |-> self_sourcefolders,
   exclude |-> self_exclude,
   codefiles |-> self_codefiles,
   listdir |-> listing]

\* C11: for a fixed content of the working directory, the ordered list of
\* SourceFile records returned by file-list resolution is the same for
\* every order in which the host may list the entries of each directory.
FileListIndependentOfListingOrder ==
  pc = "listed" =>
    \A listing \in Listings(self_workingDir) :
      getfilelist(SelfListedAs(listing), asked_types)[1] = filelist[1]

----------------------------------------------------------------------------
\* The source folders as declared: the directory and whether its
\* subdirectories are asked for too.
DeclaredFolders ==
  {[directory |-> IF endswith(self_sourcefolders[i], <<"/","*",".","*">>)
                  THEN SubSeq(self_sourcefolders[i], 1, Len(self_sourcefolders[i]) - 4)
                  ELSE self_sourcefolders[i],
    recurse |-> endswith(self_sourcefolders[i], <<"/","*",".","*">>)] :
     i \in 1..Len(self_sourcefolders)}

\* A name equals an entry of the exclusion list, letter case ignored.
NameIsExcluded(name) ==
  \E i \in 1..Len(self_exclude) : str_lower(name) = str_lower(self_exclude[i])

\* The directories at and below directory; with pruned, the subdirectories
\* whose own name is excluded are left out with all that is below them.
RECURSIVE DirectoriesBelow(_, _)
DirectoriesBelow(directory, pruned) ==
  IF ~isdir(self_workingDir, directory) THEN {}
  ELSE {directory} \cup
       UNION {DirectoriesBelow(directory \o os_sep \o name, pruned) :
                name \in {n \in entries(self_workingDir, directory) :
                            /\ ~isfile(self_workingDir, directory, n)
                            /\ ~(pruned /\ NameIsExcluded(n))}}

\* The directories of the declared source folders.
DeclaredDirectories(pruned) ==
  UNION {IF f.recurse THEN DirectoriesBelow(f.directory, pruned)
         ELSE IF isdir(self_workingDir, f.directory) THEN {f.directory} ELSE {} :
         f \in DeclaredFolders}

\* The types of the table entries whose extension the lower-cased name ends
\* with: every extension begins with the only dot it holds, so no two of
\* them end the same name.
TypesOfName(name) ==
  {defaultcodeextensions[i][2] :
     i \in {j \in 1..Len(defaultcodeextensions) :
              endswith(str_lower(name), defaultcodeextensions[j][1])}}

\* The files of directory that are not excluded and whose extension
\* classifies to a type asked for, as SourceFile records.
AcceptedFilesIn(directory) ==
  UNION {{[filename |-> convert_to_windows_slashes(
                          IF directory = <<".">> THEN name
                          ELSE directory \o os_sep \o name),
           directory |-> directory,
           type |-> t] : t \in TypesOfName(name) \cap TupleSet(asked_types)} :
         name \in {n \in entries(self_workingDir, directory) :
                     /\ isfile(self_workingDir, directory, n)
                     /\ ~NameIsExcluded(n)}}

AcceptedFiles(pruned) ==
  UNION {AcceptedFilesIn(directory) : directory \in DeclaredDirectories(pruned)}

\* The records of the list returned.
ListedFiles == {filelist[1][i] : i \in 1..Len(filelist[1])}

----------------------------------------------------------------------------
\* C13: no file of the list returned lies beneath a directory that holds
\* tool output or belongs to an IDE (temp, bin, appfolder, *.xcodeproj,
\* *_Data, * Data): file-list resolution does not descend into them.
NoFileBeneathToolOutputDirectory ==
  pc = "listed" =>
    \A i \in 1..Len(filelist[1]) :
      LET path == components(filelist[1][i].directory, <<>>)
      IN  \A k \in 1..Len(path) : ~recursivegetprojects_skips(path[k])

----------------------------------------------------------------------------
\* The item of the description list at position i names the target format
\* name.
IsTarget(i, name) ==
  /\ run_input.myjson[i][1] = "str"
  /\ run_input.myjson[i][2] = name

\* The item the loop of process() handled last.
LastProcessed == item_index - 1

\* createcodewarriorsolution has just written its .mcp.xml file and
\* returned.
CodewarriorTextProduced ==
  /\ run_pc = "process"
  /\ LastProcessed \in processed
  /\ IsTarget(LastProcessed, "codewarrior")
  /\ writes # <<>>

\* C15: whenever CodeWarrior generation has produced the intermediate text
\* project file it returns 0, whether CWFolder is set or not and whatever
\* the exit code of the IDE that converts the file.
CodewarriorTextProducedIsSuccess ==
  CodewarriorTextProduced => error = 0

----------------------------------------------------------------------------
\* The run has returned because the generator of the target at position
\* LastProcessed returned an error.
TargetFailed ==
  /\ run_pc = "returned"
  /\ run_input.kind = "list"
  /\ error # 0
  /\ LastProcessed \in processed
  /\ run_input.myjson[LastProcessed][1] = "str"

\* C16: when the generator of one requested target fails, every other
\* target of the list is processed all the same (no stop-on-first-error
\* policy can be asked for).
FailedTargetDoesNotStopTheOthers ==
  TargetFailed =>
    \A i \in 1..Len(run_input.myjson) :
      run_input.myjson[i][1] = "str" => i \in processed

----------------------------------------------------------------------------
\* The keys that the documentation of processjson lists as acceptable.
AcceptableKeys ==
  {"finalfolder", "kind", "projectname", "platform", "configurations",
   "sourcefolders", "exclude", "defines", "includefolders", "xcode",
   "visualstudio"}

\* The item at position i is a record with a key that is not acceptable.
HasUnknownKey(i) ==
  /\ run_input.myjson[i][1] = "dict"
  /\ \E k \in 1..Len(run_input.myjson[i][2]) :
       run_input.myjson[i][2][k][1] \notin AcceptableKeys

\* C17: once process() has handled a record with an unrecognized key the
\* error is not 0, the run returns a non-zero result, and no item after
\* that record, a target least of all, is handled.
UnknownKeyIsFatal ==
  \A i \in processed :
    HasUnknownKey(i) =>
      /\ error # 0
      /\ run_pc = "returned" => exit_code # 0
      /\ \A j \in processed : j <= i

\* The list is watcom, a record with the key nonsense, watcom: the run has
\* returned 1 having written the Watcom makefile once, for the first item.
UnknownKeyIsFatalWitness ==
  /\ run_pc = "returned"
  /\ run_input.kind = "list"
  /\ Len(run_input.myjson) = 3
  /\ IsTarget(1, "watcom")
  /\ HasUnknownKey(2)
  /\ IsTarget(3, "watcom")
  /\ exit_code = 1
  /\ processed = {1, 2}
  /\ writes = <<"projectwatwin.wmk">>

----------------------------------------------------------------------------
\* The target formats process() generates.
KnownTargets ==
  {"vs2015", "vs2013", "vs2012", "vs2010", "vs2008", "vs2005", "xcode3",
   "xcode4", "xcode5", "codewarrior", "codeblocks", "watcom"}

\* C18: the run returns 0 only on full success: the description file was
\* parsed to a list, every record of it has acceptable keys only, and every
\* target it names is a known format that was generated without error.
ExitCodeZeroOnlyOnFullSuccess ==
  (run_pc = "returned" /\ exit_code = 0) =>
    /\ run_input.kind = "list"
    /\ \A i \in 1..Len(run_input.myjson) :
         /\ i \in processed
         /\ ~HasUnknownKey(i)
         /\ run_input.myjson[i][1] = "str" => run_input.myjson[i][2] \in KnownTargets

----------------------------------------------------------------------------
\* C19: a second run on the unchanged description leaves every project
\* file with the text it had and writes no file.
SecondRunWritesNothing ==
  (runs = 2 /\ run_pc = "returned") =>
    /\ disk = disk_before
    /\ writes = <<>>

----------------------------------------------------------------------------
(* The generators of codewarrior.py and watcom.py: what they refuse and    *)
(* what they leave of the solution                                         *)

\* The IDE and every platform of the solution pass the test of the
\* generator called last.
EmitterSupports ==
  LET configuration_list == emit_before.project.configuration_list
  IN  IF emitter = "codewarrior"
      THEN /\ emit_before.ide \in CODEWARRIOR_SUPPORTED_IDES
           /\ \A i \in 1..Len(configuration_list) :
                codewarrior_test(emit_before.ide, configuration_list[i].platform)
      ELSE /\ emit_before.ide \in WATCOM_SUPPORTED_IDES
           /\ \A i \in 1..Len(configuration_list) :
                watcom_test(emit_before.ide, configuration_list[i].platform)

\* C14: a generator called for an IDE and platform it does not support
\* returns a result other than 0 and writes no file.
UnsupportedCombinationWritesNothing ==
  (emits > 0 /\ ~EmitterSupports) => (emit_result # 0 /\ emit_writes = <<>>)

\* The solution without the file names the generators assign.
WithoutFilenames(solution) ==
  [solution EXCEPT !.codewarrior_filename = None, !.watcom_filename = None]

\* C20: after a generator has run, the solution, its project and its
\* configurations are as they were before, but for codewarrior_filename and
\* watcom_filename.
GenerateChangesOnlyFilenames ==
  emits > 0 => WithoutFilenames(emit_solution) = WithoutFilenames(emit_before)

----------------------------------------------------------------------------
\* The value the chain of a configuration yields for the attribute asked.
ChainedValueOf(configuration, name) ==
  IF configuration[name] # None THEN configuration[name] ELSE configuration.project[name]

----------------------------------------------------------------------------
(* The file groups of a CodeWarrior project *)

\* How often x is in the sequence s.
Occurrences(s, x) == Cardinality({i \in 1..Len(s) : s[i] = x})

Front(s) == SubSeq(s, 1, Len(s) - 1)
Last(s) == s[Len(s)]

\* The parts of the files added so far, without their '.' and '..'
\* prefixes.
AddedFiles ==
  {discard_prefixes(cw_added[i]) : i \in 1..Len(cw_added)} \ {<<>>}

CaseInsensitiveOrder(names) ==
  \A i \in 1..Len(names) - 1 : cmp(str_lower(names[i]), str_lower(names[i + 1])) <= 0

\* The element of a group and every element within it lists its groups
\* and its file references in case-insensitive order.
RECURSIVE GroupInOrder(_)
GroupInOrder(element) ==
  /\ CaseInsensitiveOrder([i \in 1..Len(element.groups) |-> element.groups[i].name])
  /\ CaseInsensitiveOrder(element.filerefs)
  /\ \A i \in 1..Len(element.groups) : GroupInOrder(element.groups[i])

\* C23: in the group tree written, the child groups and the file leaves of
\* every node are in case-insensitive order of their names.
GroupTreeInCaseInsensitiveOrder ==
  cw_pc = "generated" => GroupInOrder(cw_lines)

----------------------------------------------------------------------------
(* The makefile createwatcomsolution writes *)

\* The makefiles for Watcom in the working directory.
WatcomMakefiles == {name \in DOMAIN disk : disk[name].generator = "watcom"}

\* The C, C++ and assembly files of the working directory.
WatcomSources ==
  {name \in RunDirectory.files : TypesOfName(name) \cap {"cpp", "x86"} # {}}

\* C24: a Watcom makefile lists one object for every C, C++ and assembly
\* file of the project and none for a header, and has one build target for
\* every configuration, no two of them making the same binary.
WatcomObjectsAndTargets ==
  \A name \in WatcomMakefiles :
    LET text == disk[name]
    IN  /\ Len(text.objs) = Cardinality(WatcomSources)
        /\ \A source \in WatcomSources :
             \E i \in 1..Len(text.objs) : text.objs[i] = watcom_obj_entry(source)
        /\ \A i \in 1..Len(text.configurations) :
             Cardinality({k \in 1..Len(text.builds) :
                            text.builds[k].configuration = text.configurations[i]}) = 1
        /\ \A j, k \in 1..Len(text.builds) :
             text.builds[j].binary = text.builds[k].binary => j = k

----------------------------------------------------------------------------
\* How many rules of the makefile have this target.
RulesFor(rules, target) == Cardinality({k \in 1..Len(rules) : rules[k].target = target})

\* C25: in a Watcom makefile every target that the all rule, the rule of a
\* configuration or the rule of a platform names as a prerequisite is
\* defined by exactly one rule of the file.
PrerequisitesDefinedOnce ==
  op = "write_all_target" =>
    \A k \in 1..Len(result) :
      result[k].rule \in {"all", "configuration", "platform"} =>
        \A i \in 1..Len(result[k].prerequisites) :
          RulesFor(result, result[k].prerequisites[i]) = 1

----------------------------------------------------------------------------
\* C26: after fixup_ide_platform the IDE list and the platform list are
\* both non-empty, and a list that was non-empty on entry is as it was.
FixupFillsOnlyEmptyLists ==
  op = "fixup_ide_platform" =>
    /\ result.ide_list # <<>>
    /\ result.platform_list # <<>>
    /\ args[1] # <<>> => result.ide_list = args[1]
    /\ args[2] # <<>> => result.platform_list = args[2]

\* Both lists empty on a Windows host with Visual Studio 2017: the host's
\* IDE and platform are filled in.
FixupWitness ==
  /\ op = "fixup_ide_platform"
  /\ args[1] = <<>>
  /\ args[2] = <<>>
  /\ result.ide_list = <<"vs2017">>
  /\ result.platform_list = <<"win64">>

----------------------------------------------------------------------------
\* The version number of an Xcode member of IDETypes.
XcodeVersion(ide) ==
  CASE ide = "xcode3" -> 3 [] ide = "xcode4" -> 4 [] ide = "xcode5" -> 5
    [] ide = "xcode6" -> 6 [] ide = "xcode7" -> 7 [] ide = "xcode8" -> 8
    [] ide = "xcode9" -> 9 [] ide = "xcode10" -> 10

\* C27: get_installed_xcode returns the IDETypes member of the highest
\* Xcode version installed on the host, and None when none is installed.
InstalledXcodeIsHighest ==
  op = "get_installed_xcode" =>
    IF args[1].xcode = {}
    THEN result = None
    ELSE /\ result \in args[1].xcode
         /\ \A ide \in args[1].xcode : XcodeVersion(ide) <= XcodeVersion(result)

----------------------------------------------------------------------------
\* Where a file was discovered: its place among the files of the run.
Discovered(file_name) ==
  CHOOSE i \in 1..Len(build_args.files) : build_args.files[i] = file_name

\* The entry of "projects" of a file.
ProjectOf(file_name) ==
  build_projects[CHOOSE i \in 1..Len(build_projects) : build_projects[i][1] = file_name]

\* The prebuild and postbuild scripts among the files, by name.
PrebuildFiles == {f \in BuildFiles : str_lower(os_path_basename(f)) = BUILDME_NAMES.prebuild}
PostbuildFiles == {f \in BuildFiles : str_lower(os_path_basename(f)) = BUILDME_NAMES.postbuild}

IsPrebuild(file_name) == file_name \in PrebuildFiles
IsPostbuild(file_name) == file_name \in PostbuildFiles
IsGenerated(file_name) == ProjectOf(file_name)[2] \in {"slicer", "makerez"}
IsIDEOrMakefile(file_name) ==
  ProjectOf(file_name)[2] \in {"visualstudio", "codewarrior", "watcommakefile",
                               "xcode", "codeblocks"}

\* C28: buildme runs the build commands in non-decreasing priority order:
\* no command of a file runs before a command of a file of lower priority,
\* a prebuild script runs before every other file's commands, slicer and
\* rez scripts before IDE and makefile builds, postbuild scripts after
\* everything else, and files of equal priority are built in the order
\* they were discovered in.
BuiltInPriorityOrder ==
  \A i, j \in 1..Len(build_calls) :
    i < j /\ build_calls[i].filename # build_calls[j].filename =>
      LET first == build_calls[i].filename
          second == build_calls[j].filename
      IN  /\ ProjectOf(first)[3] <= ProjectOf(second)[3]
          /\ ProjectOf(first)[3] = ProjectOf(second)[3] =>
                Discovered(first) < Discovered(second)
          /\ ~IsPrebuild(second)
          /\ ~IsPostbuild(first)
          /\ ~(IsIDEOrMakefile(first) /\ IsGenerated(second))

\* A postbuild script found before the prebuild script is run after it.
BuiltInPriorityOrderWitness ==
  /\ build_pc = "done"
  /\ Len(build_calls) = 2
  /\ IsPrebuild(build_calls[1].filename)
  /\ IsPostbuild(build_calls[2].filename)
  /\ Discovered(build_calls[2].filename) < Discovered(build_calls[1].filename)

\* C29: with the fatal option no build command is run after one that
\* reported an error, neither for a later project file nor for a later
\* target of the same file; without it every collected project file has
\* been through the loop when main reports.
FatalStopsTheBuild ==
  /\ build_pc \in {"loop", "report", "done"} /\ build_args.fatal =>
       \A i \in 1..(Len(build_calls) - 1) : build_calls[i].error = 0
  /\ build_pc = "report" /\ ~build_args.fatal =>
       build_index = Len(build_projects)

\* Every file named on the command line is a known project file.
EveryNamedFileRecognised ==
  build_args.named =>
    \A i \in 1..Len(build_args.files) :
      projecttype_priority(build_args.files[i])[1] # None

====
